---- MODULE Spec2Model ----
(***************************************************************************)
(* A model of the Leaf text editor (src/leaf.c): the row buffer, the tab   *)
(* expansion, the syntax highlighter with its block-comment cascade, the   *)
(* editing operations, incremental search, the quit guard and saving.      *)
(* Bytes are their ASCII codes; C arrays are sequences (index k of the C   *)
(* array is element k+1 of the sequence).                                  *)
(***************************************************************************)
EXTENDS Integers, Sequences, FiniteSets, TLC

\* ------------------------------------------------------------------------
\* Bounds of the model
\* ------------------------------------------------------------------------
MaxRows == 2
MaxLen == 1
MaxDirty == 2
MaxName == 1
MaxQuery == 1
TypeEdits == 1
ScreenRows == 2
ScreenCols == 3

\* ------------------------------------------------------------------------
\* Program constants
\* ------------------------------------------------------------------------
LEAF_TAB_STOP == 8
LEAF_QUIT_TIMES == 2
HL_HIGHLIGHT_NUMBERS == 1
HL_HIGHLIGHT_STRINGS == 2

BACKSPACE == 127
ARROW_LEFT == 1000
ARROW_RIGHT == 1001
ARROW_UP == 1002
ARROW_DOWN == 1003
DEL_KEY == 1004
HOME_KEY == 1005
END_KEY == 1006
PAGE_UP == 1007
PAGE_DOWN == 1008

HL_NORMAL == 0
HL_COMMENT == 1
HL_MLCOMMENT == 2
HL_KEYWORD1 == 3
HL_KEYWORD2 == 4
HL_STRING == 5
HL_NUMBER == 6
HL_MATCH == 7

\* bytes that the code names in character literals
NUL == 0
TAB == 9
ENTER == 13
ESC == 27
SPACE == 32
DQUOTE == 34
SQUOTE == 39
DOT == 46
BACKSLASH == 92
BAR == 124

CTRL_KEY(k) == k % 32

\* keys spelled with CTRL_KEY in editorProcessKeypress
CTRL_X == CTRL_KEY(120)
CTRL_S == CTRL_KEY(115)
CTRL_F == CTRL_KEY(102)
CTRL_H == CTRL_KEY(104)
CTRL_L == CTRL_KEY(108)

\* ------------------------------------------------------------------------
\* Filetypes
\* ------------------------------------------------------------------------
C_HL_keywords ==
    << <<115, 119, 105, 116, 99, 104>>,               \* "switch"
       <<105, 102>>,                                  \* "if"
       <<119, 104, 105, 108, 101>>,                   \* "while"
       <<102, 111, 114>>,                             \* "for"
       <<98, 114, 101, 97, 107>>,                     \* "break"
       <<99, 111, 110, 116, 105, 110, 117, 101>>,     \* "continue"
       <<114, 101, 116, 117, 114, 110>>,              \* "return"
       <<101, 108, 115, 101>>,                        \* "else"
       <<115, 116, 114, 117, 99, 116>>,               \* "struct"
       <<117, 110, 105, 111, 110>>,                   \* "union"
       <<116, 121, 112, 101, 100, 101, 102>>,         \* "typedef"
       <<115, 116, 97, 116, 105, 99>>,                \* "static"
       <<101, 110, 117, 109>>,                        \* "enum"
       <<99, 108, 97, 115, 115>>,                     \* "class"
       <<99, 97, 115, 101>>,                          \* "case"
       <<105, 110, 116, 124>>,                        \* "int|"
       <<108, 111, 110, 103, 124>>,                   \* "long|"
       <<100, 111, 117, 98, 108, 101, 124>>,          \* "double|"
       <<102, 108, 111, 97, 116, 124>>,               \* "float|"
       <<99, 104, 97, 114, 124>>,                     \* "char|"
       <<117, 110, 115, 105, 103, 110, 101, 100, 124>>, \* "unsigned|"
       <<115, 105, 103, 110, 101, 100, 124>>,         \* "signed|"
       <<118, 111, 105, 100, 124>> >>                 \* "void|"

\* The highlight database; configuration.syntax is 0 for NULL and k for
\* &HLDB[k-1].
HLDB ==
    << [ filetype |-> "c",
         keywords |-> C_HL_keywords,
         singleline_comment_start |-> <<47, 47>>,     \* "//"
         multiline_comment_start |-> <<47, 42>>,      \* "/*"
         multiline_comment_end |-> <<42, 47>>,        \* "*/"
         flags |-> HL_HIGHLIGHT_NUMBERS + HL_HIGHLIGHT_STRINGS ] >>

\* ------------------------------------------------------------------------
\* Syntax highlight
\* ------------------------------------------------------------------------
\* isspace(c) in the C locale
isspace(c) == c = SPACE \/ (c >= 9 /\ c <= 13)

isdigit(c) == c >= 48 /\ c <= 57

iscntrl(c) == (c >= 0 /\ c < 32) \/ c = 127

\* the bytes of ",._(){}[]/+-=;*<>%"
SeparatorPunct ==
    {44, 46, 95, 40, 41, 123, 125, 91, 93, 47, 43, 45, 61, 59, 42, 60, 62, 37}

is_separator(c) == isspace(c) \/ c = NUL \/ c \in SeparatorPunct

\* s[i] of a NUL-terminated C string held in a sequence (0-based i <= Len)
CharAt(s, i) == IF i < Len(s) THEN s[i + 1] ELSE NUL

\* !strncmp(&s[i], p, strlen(p)) for a NUL-terminated s
StartsWith(s, i, p) ==
    /\ i + Len(p) <= Len(s)
    /\ \A k \in 1..Len(p) : s[i + k] = p[k]

\* memset(&hl[i], v, n)
MemSet(hl, i, v, n) ==
    [k \in 1..Len(hl) |-> IF k > i /\ k <= i + n THEN v ELSE hl[k]]

\* strlen of a keyword without its '|' class marker, and the marker test
KeyIsType(kw) == kw[Len(kw)] = BAR

KeyLen(kw) == IF KeyIsType(kw) THEN Len(kw) - 1 ELSE Len(kw)

\* the keyword loop of updateSyntax: the first j whose keyword matches at i
\* and is followed by a separator, or 0 when the loop runs to the NULL entry
KeywordMatch(render, i, keywords) ==
    LET hits == { j \in 1..Len(keywords) :
                    /\ StartsWith(render, i, SubSeq(keywords[j], 1, KeyLen(keywords[j])))
                    /\ is_separator(CharAt(render, i + KeyLen(keywords[j]))) }
    IN IF hits = {} THEN 0 ELSE CHOOSE j \in hits : \A k \in hits : j <= k

RECURSIVE ScanRow(_, _, _, _, _, _, _, _)
\* the while loop of updateSyntax over one row: render, size (of chars),
\* the syntax, and the loop state i, prev_sep, in_string, in_comment, hl
ScanRow(render, size, syn, i, prev_sep, in_string, in_comment, hl) ==
    IF i >= Len(render) THEN [highlight |-> hl, in_comment |-> in_comment]
    ELSE
    LET c == render[i + 1]
        prev_hl == IF i > 0 THEN hl[i] ELSE HL_NORMAL
        scs == syn.singleline_comment_start
        mcs == syn.multiline_comment_start
        mce == syn.multiline_comment_end
        kw == KeywordMatch(render, i, syn.keywords)
    IN
    IF Len(scs) > 0 /\ in_string = 0 /\ ~in_comment /\ StartsWith(render, i, scs)
    THEN [highlight |-> MemSet(hl, i, HL_COMMENT, Len(render) - i),
          in_comment |-> in_comment]
    ELSE IF Len(mcs) > 0 /\ Len(mce) > 0 /\ in_string = 0 /\ in_comment
    THEN IF StartsWith(render, i, mce)
         THEN ScanRow(render, size, syn, i + Len(mce), TRUE, in_string, FALSE,
                      MemSet(hl, i, HL_MLCOMMENT, Len(mce)))
         ELSE ScanRow(render, size, syn, i + 1, prev_sep, in_string, in_comment,
                      MemSet(hl, i, HL_MLCOMMENT, 1))
    ELSE IF Len(mcs) > 0 /\ Len(mce) > 0 /\ in_string = 0
            /\ StartsWith(render, i, mcs)
    THEN ScanRow(render, size, syn, i + Len(mcs), prev_sep, in_string, TRUE,
                 MemSet(hl, i, HL_MLCOMMENT, Len(mcs)))
    ELSE IF (syn.flags \div HL_HIGHLIGHT_STRINGS) % 2 = 1 /\ in_string # 0
    THEN IF c = BACKSLASH /\ i + 1 < size
         THEN ScanRow(render, size, syn, i + 2, prev_sep, in_string, in_comment,
                      MemSet(hl, i, HL_STRING, 2))
         ELSE ScanRow(render, size, syn, i + 1, TRUE,
                      IF c = in_string THEN 0 ELSE in_string, in_comment,
                      MemSet(hl, i, HL_STRING, 1))
    ELSE IF (syn.flags \div HL_HIGHLIGHT_STRINGS) % 2 = 1
            /\ (c = DQUOTE \/ c = SQUOTE)
    THEN ScanRow(render, size, syn, i + 1, prev_sep, c, in_comment,
                 MemSet(hl, i, HL_STRING, 1))
    ELSE IF (syn.flags \div HL_HIGHLIGHT_NUMBERS) % 2 = 1
            /\ (\/ isdigit(c) /\ (prev_sep \/ prev_hl = HL_NUMBER)
                \/ c = DOT /\ prev_hl = HL_NUMBER)
    THEN ScanRow(render, size, syn, i + 1, FALSE, in_string, in_comment,
                 MemSet(hl, i, HL_NUMBER, 1))
    ELSE IF prev_sep /\ kw # 0
    THEN ScanRow(render, size, syn, i + KeyLen(syn.keywords[kw]), FALSE,
                 in_string, in_comment,
                 MemSet(hl, i,
                        IF KeyIsType(syn.keywords[kw]) THEN HL_KEYWORD1 ELSE HL_KEYWORD2,
                        KeyLen(syn.keywords[kw])))
    ELSE ScanRow(render, size, syn, i + 1, is_separator(c), in_string,
                 in_comment, hl)

\* replace element k (0-based) of the row array
SetRow(cfg, k, r) == [cfg EXCEPT !.row[k + 1] = r]

\* updateSyntax without the propagation to the following rows
updateSyntaxNoCascade(cfg, at) ==
    LET row == cfg.row[at + 1]
        blank == [k \in 1..Len(row.render) |-> HL_NORMAL]
    IN
    IF cfg.syntax = 0 THEN SetRow(cfg, at, [row EXCEPT !.highlight = blank])
    ELSE
    LET start == row.idx > 0 /\ cfg.row[row.idx].in_multiline_open_comment
        res == ScanRow(row.render, Len(row.chars), HLDB[cfg.syntax], 0, TRUE,
                       0, start, blank)
    IN SetRow(cfg, at, [row EXCEPT !.highlight = res.highlight,
                                   !.in_multiline_open_comment = res.in_comment])

RECURSIVE updateSyntax(_, _)
\* updateSyntax(&configuration.row[at]); cfg.rows_number is read as stored
updateSyntax(cfg, at) ==
    LET row == cfg.row[at + 1]
        blank == [k \in 1..Len(row.render) |-> HL_NORMAL]
    IN
    IF cfg.syntax = 0 THEN SetRow(cfg, at, [row EXCEPT !.highlight = blank])
    ELSE
    LET start == row.idx > 0 /\ cfg.row[row.idx].in_multiline_open_comment
        res == ScanRow(row.render, Len(row.chars), HLDB[cfg.syntax], 0, TRUE,
                       0, start, blank)
        changed == row.in_multiline_open_comment # res.in_comment
        cfg2 == SetRow(cfg, at, [row EXCEPT !.highlight = res.highlight,
                                             !.in_multiline_open_comment = res.in_comment])
    IN IF changed /\ row.idx + 1 < cfg.rows_number
       THEN updateSyntax(cfg2, row.idx + 1)
       ELSE cfg2

RECURSIVE updateSyntaxRows(_, _)
\* the indices of the rows that updateSyntax(&configuration.row[at]) and
\* its recursive calls highlight, in the order of the calls
updateSyntaxRows(cfg, at) ==
    LET row == cfg.row[at + 1]
        blank == [k \in 1..Len(row.render) |-> HL_NORMAL]
    IN
    IF cfg.syntax = 0 THEN <<at>>
    ELSE
    LET start == row.idx > 0 /\ cfg.row[row.idx].in_multiline_open_comment
        res == ScanRow(row.render, Len(row.chars), HLDB[cfg.syntax], 0, TRUE,
                       0, start, blank)
        changed == row.in_multiline_open_comment # res.in_comment
        cfg2 == SetRow(cfg, at, [row EXCEPT !.highlight = res.highlight,
                                             !.in_multiline_open_comment = res.in_comment])
    IN IF changed /\ row.idx + 1 < cfg.rows_number
       THEN <<at>> \o updateSyntaxRows(cfg2, row.idx + 1)
       ELSE <<at>>

\* ------------------------------------------------------------------------
\* Row operations
\* ------------------------------------------------------------------------
\* one step of the loop shared by both converters: the render column after
\* the byte c when the column before it is rx
AdvanceRenderX(rx, c) ==
    IF c = TAB THEN rx + (LEAF_TAB_STOP - 1) - (rx % LEAF_TAB_STOP) + 1
    ELSE rx + 1

RECURSIVE CursorXToRenderXFrom(_, _, _, _)
\* the loop of CursorXToRenderXConverter from index i with renderX = rxs.
\* chars[size] is the terminator; a read past it is a read outside the
\* allocation, whose byte is either a tab or not: rxs is the set of the
\* values renderX can have
CursorXToRenderXFrom(chars, cursorX, i, rxs) ==
    IF i >= cursorX THEN rxs
    ELSE IF i <= Len(chars)
    THEN CursorXToRenderXFrom(chars, cursorX, i + 1,
             { AdvanceRenderX(rx, CharAt(chars, i)) : rx \in rxs })
    ELSE CursorXToRenderXFrom(chars, cursorX, i + 1,
             { AdvanceRenderX(rx, TAB) : rx \in rxs }
               \cup { AdvanceRenderX(rx, NUL) : rx \in rxs })

\* the values CursorXToRenderXConverter(row, cursorX) can return: one value
\* when cursorX <= row->size + 1
CursorXToRenderXConverter(row, cursorX) ==
    CursorXToRenderXFrom(row.chars, cursorX, 0, {0})

RECURSIVE RederXToCursorXFrom(_, _, _, _)
RederXToCursorXFrom(chars, renderX, cursorX, current_renderX) ==
    IF cursorX >= Len(chars) THEN cursorX
    ELSE LET next == AdvanceRenderX(current_renderX, chars[cursorX + 1])
         IN IF next > renderX THEN cursorX
            ELSE RederXToCursorXFrom(chars, renderX, cursorX + 1, next)

\* a conversion that takes every byte for one cell
RederXToCursorXOneCell(row, renderX) == renderX

RederXToCursorXConverter(row, renderX) ==
    RederXToCursorXFrom(row.chars, renderX, 0, 0)

RECURSIVE RenderOfFullTab(_, _, _)
\* a render that gives every tab LEAF_TAB_STOP cells, the size UpdateRow
\* allocates per tab
RenderOfFullTab(chars, i, render) ==
    IF i >= Len(chars) THEN render
    ELSE IF chars[i + 1] = TAB
    THEN RenderOfFullTab(chars, i + 1,
                         render \o [k \in 1..LEAF_TAB_STOP |-> SPACE])
    ELSE RenderOfFullTab(chars, i + 1, Append(render, chars[i + 1]))

RECURSIVE RenderOf(_, _, _)
\* the second loop of UpdateRow: chars from index i appended to render
RenderOf(chars, i, render) ==
    IF i >= Len(chars) THEN render
    ELSE IF chars[i + 1] = TAB
    THEN LET idx == Len(render) + 1
             fill == IF idx % LEAF_TAB_STOP = 0 THEN 0
                     ELSE LEAF_TAB_STOP - (idx % LEAF_TAB_STOP)
         IN RenderOf(chars, i + 1, render \o [k \in 1..(1 + fill) |-> SPACE])
    ELSE RenderOf(chars, i + 1, Append(render, chars[i + 1]))

\* an UpdateRow that rebuilds render and leaves the highlight array alone
UpdateRowNoSyntax(cfg, at) ==
    SetRow(cfg, at, [cfg.row[at + 1] EXCEPT
                       !.render = RenderOf(cfg.row[at + 1].chars, 0, <<>>)])

\* UpdateRow(&configuration.row[at])
UpdateRow(cfg, at) ==
    updateSyntax(SetRow(cfg, at, [cfg.row[at + 1] EXCEPT
                                    !.render = RenderOf(cfg.row[at + 1].chars, 0, <<>>)]),
                 at)

\* insertRow(at, s, len) up to its call of UpdateRow, for 0 <= at <=
\* rows_number: the rows from at moved up, the new row initialised,
\* rows_number not yet incremented
insertRowMoved(cfg, at, s) ==
    LET new == [idx |-> at, chars |-> s, render |-> <<>>, highlight |-> <<>>,
                in_multiline_open_comment |-> FALSE]
        moved == [k \in 1..(cfg.rows_number + 1) |->
                    IF k <= at THEN cfg.row[k]
                    ELSE IF k = at + 1 THEN new
                    ELSE [cfg.row[k - 1] EXCEPT !.idx = @ + 1]]
    IN [cfg EXCEPT !.row = moved]

\* insertRow(at, s, len): the new row is highlighted while rows_number
\* still has its old value
insertRow(cfg, at, s) ==
    IF at < 0 \/ at > cfg.rows_number THEN cfg
    ELSE
    LET cfg2 == UpdateRow(insertRowMoved(cfg, at, s), at)
    IN [cfg2 EXCEPT !.rows_number = @ + 1, !.dirty = @ + 1]

\* a rowInsertChar that puts the byte behind the last byte of the row
rowInsertCharAtEnd(cfg, r, at0, c) ==
    LET cfg2 == UpdateRow(SetRow(cfg, r, [cfg.row[r + 1] EXCEPT !.chars =
                    Append(@, c)]), r)
    IN [cfg2 EXCEPT !.dirty = @ + 1]

\* rowInsertChar(&configuration.row[r], at, c)
rowInsertChar(cfg, r, at0, c) ==
    LET chars == cfg.row[r + 1].chars
        at == IF at0 < 0 \/ at0 > Len(chars) THEN Len(chars) ELSE at0
        cfg2 == UpdateRow(SetRow(cfg, r, [cfg.row[r + 1] EXCEPT !.chars =
                    SubSeq(chars, 1, at) \o <<c>> \o SubSeq(chars, at + 1, Len(chars))]), r)
    IN [cfg2 EXCEPT !.dirty = @ + 1]

\* rowDeleteChar(&configuration.row[r], at); the row is not empty. With
\* at = size the memmove moves nothing and size-- drops the last byte
rowDeleteChar(cfg, r, at0) ==
    LET chars == cfg.row[r + 1].chars
        at == IF at0 < 0 \/ at0 > Len(chars) THEN Len(chars) ELSE at0
        cfg2 == UpdateRow(SetRow(cfg, r, [cfg.row[r + 1] EXCEPT !.chars =
                    IF at = Len(chars) THEN SubSeq(chars, 1, Len(chars) - 1)
                    ELSE SubSeq(chars, 1, at) \o SubSeq(chars, at + 2, Len(chars))]), r)
    IN [cfg2 EXCEPT !.dirty = @ + 1]

\* a deleteRow that moves the rows up and keeps their stored indices
deleteRowNoShift(cfg, at) ==
    IF at < 0 \/ at >= cfg.rows_number THEN cfg
    ELSE [cfg EXCEPT
            !.row = [k \in 1..(cfg.rows_number - 1) |->
                        IF k <= at THEN cfg.row[k] ELSE cfg.row[k + 1]],
            !.rows_number = @ - 1,
            !.dirty = @ + 1]

\* deleteRow(at)
deleteRow(cfg, at) ==
    IF at < 0 \/ at >= cfg.rows_number THEN cfg
    ELSE [cfg EXCEPT
            !.row = [k \in 1..(cfg.rows_number - 1) |->
                        IF k <= at THEN cfg.row[k]
                        ELSE [cfg.row[k + 1] EXCEPT !.idx = @ - 1]],
            !.rows_number = @ - 1,
            !.dirty = @ + 1]

\* rowAppendString(&configuration.row[r], s, len)
rowAppendString(cfg, r, s) ==
    LET cfg2 == UpdateRow(SetRow(cfg, r, [cfg.row[r + 1] EXCEPT !.chars = @ \o s]), r)
    IN [cfg2 EXCEPT !.dirty = @ + 1]

\* ------------------------------------------------------------------------
\* Editor operations
\* ------------------------------------------------------------------------
\* an insertNewLine that leaves the cursor where it is
insertNewLineCursorStays(cfg) ==
    IF cfg.cursorX = 0 THEN insertRow(cfg, cfg.cursorY, <<>>)
    ELSE LET chars == cfg.row[cfg.cursorY + 1].chars
             ins == insertRow(cfg, cfg.cursorY + 1,
                              SubSeq(chars, cfg.cursorX + 1, Len(chars)))
         IN UpdateRow(SetRow(ins, cfg.cursorY,
                         [ins.row[cfg.cursorY + 1] EXCEPT !.chars =
                             SubSeq(chars, 1, cfg.cursorX)]), cfg.cursorY)

\* an insertNewLine that leaves the cursor row with all its bytes
insertNewLineNoTruncate(cfg) ==
    LET cfg2 ==
          IF cfg.cursorX = 0 THEN insertRow(cfg, cfg.cursorY, <<>>)
          ELSE LET chars == cfg.row[cfg.cursorY + 1].chars
               IN insertRow(cfg, cfg.cursorY + 1,
                            SubSeq(chars, cfg.cursorX + 1, Len(chars)))
    IN [cfg2 EXCEPT !.cursorY = @ + 1, !.cursorX = 0]

\* insertNewLine(), for cursorX <= size of the cursor row
insertNewLine(cfg) ==
    LET cfg2 ==
          IF cfg.cursorX = 0 THEN insertRow(cfg, cfg.cursorY, <<>>)
          ELSE LET chars == cfg.row[cfg.cursorY + 1].chars
                   ins == insertRow(cfg, cfg.cursorY + 1,
                                    SubSeq(chars, cfg.cursorX + 1, Len(chars)))
               IN UpdateRow(SetRow(ins, cfg.cursorY,
                               [ins.row[cfg.cursorY + 1] EXCEPT !.chars =
                                   SubSeq(chars, 1, cfg.cursorX)]), cfg.cursorY)
    IN [cfg2 EXCEPT !.cursorY = @ + 1, !.cursorX = 0]

\* insertChar(c)
insertChar(cfg, c) ==
    LET cfg2 == IF cfg.cursorY = cfg.rows_number
                THEN insertRow(cfg, cfg.rows_number, <<>>) ELSE cfg
        cfg3 == rowInsertChar(cfg2, cfg2.cursorY, cfg2.cursorX, c)
    IN [cfg3 EXCEPT !.cursorX = @ + 1]

\* a deleteChar that counts a key without effect as a change
deleteCharCounts(cfg) ==
    IF cfg.cursorY = cfg.rows_number THEN [cfg EXCEPT !.dirty = @ + 1]
    ELSE IF cfg.cursorX = 0 /\ cfg.cursorY = 0 THEN [cfg EXCEPT !.dirty = @ + 1]
    ELSE IF cfg.cursorX > 0
    THEN [rowDeleteChar(cfg, cfg.cursorY, cfg.cursorX - 1) EXCEPT !.cursorX = @ - 1]
    ELSE LET cfg2 == [cfg EXCEPT !.cursorX = Len(cfg.row[cfg.cursorY].chars)]
             cfg3 == rowAppendString(cfg2, cfg.cursorY - 1,
                                     cfg.row[cfg.cursorY + 1].chars)
             cfg4 == deleteRow(cfg3, cfg.cursorY)
         IN [cfg4 EXCEPT !.cursorY = @ - 1]

\* a deleteChar whose join reads the cursor column after the append
deleteCharCursorAfter(cfg) ==
    IF cfg.cursorY = cfg.rows_number THEN cfg
    ELSE IF cfg.cursorX = 0 /\ cfg.cursorY = 0 THEN cfg
    ELSE IF cfg.cursorX > 0
    THEN [rowDeleteChar(cfg, cfg.cursorY, cfg.cursorX - 1) EXCEPT !.cursorX = @ - 1]
    ELSE LET cfg3 == rowAppendString(cfg, cfg.cursorY - 1,
                                     cfg.row[cfg.cursorY + 1].chars)
             cfg4 == deleteRow(cfg3, cfg.cursorY)
         IN [cfg4 EXCEPT !.cursorY = @ - 1,
                         !.cursorX = Len(cfg3.row[cfg.cursorY].chars)]

\* deleteChar()
deleteChar(cfg) ==
    IF cfg.cursorY = cfg.rows_number THEN cfg
    ELSE IF cfg.cursorX = 0 /\ cfg.cursorY = 0 THEN cfg
    ELSE IF cfg.cursorX > 0
    THEN [rowDeleteChar(cfg, cfg.cursorY, cfg.cursorX - 1) EXCEPT !.cursorX = @ - 1]
    ELSE LET cfg2 == [cfg EXCEPT !.cursorX = Len(cfg.row[cfg.cursorY].chars)]
             cfg3 == rowAppendString(cfg2, cfg.cursorY - 1,
                                     cfg.row[cfg.cursorY + 1].chars)
             cfg4 == deleteRow(cfg3, cfg.cursorY)
         IN [cfg4 EXCEPT !.cursorY = @ - 1]

\* ------------------------------------------------------------------------
\* File I/O
\* ------------------------------------------------------------------------
RECURSIVE rowsToStringNoLast(_, _)
\* a buffer with a newline between the rows and none after the last row
rowsToStringNoLast(rows, i) ==
    IF i >= Len(rows) THEN <<>>
    ELSE IF i = Len(rows) - 1 THEN rows[i + 1].chars
    ELSE rows[i + 1].chars \o <<10>> \o rowsToStringNoLast(rows, i + 1)

RECURSIVE rowsToStringFrom(_, _)
\* the second loop of rowsToString from row i (0-based)
rowsToStringFrom(rows, i) ==
    IF i >= Len(rows) THEN <<>>
    ELSE rows[i + 1].chars \o <<10>> \o rowsToStringFrom(rows, i + 1)

\* rowsToString(&length): the buffer; length is its Len
rowsToString(cfg) == rowsToStringFrom(SubSeq(cfg.row, 1, cfg.rows_number), 0)

\* strrchr(filename, '.'): the suffix from the last '.', or <<>> for NULL
Extension(name) ==
    LET dots == { k \in 1..Len(name) : name[k] = DOT }
    IN IF dots = {} THEN <<>>
       ELSE SubSeq(name, CHOOSE k \in dots : \A j \in dots : j <= k, Len(name))

\* C_HL_extensions: ".c", ".h", ".cpp"
C_HL_extensions == { <<46, 99>>, <<46, 104>>, <<46, 99, 112, 112>> }

RECURSIVE updateSyntaxAll(_, _)
\* the loop of selectSyntaxHighlight over filerow
updateSyntaxAll(cfg, filerow) ==
    IF filerow >= cfg.rows_number THEN cfg
    ELSE updateSyntaxAll(updateSyntax(cfg, filerow), filerow + 1)

\* selectSyntaxHighlight(); configuration.filename is {} for NULL, else {name}
selectSyntaxHighlight(cfg) ==
    LET off == [cfg EXCEPT !.syntax = 0]
    IN IF cfg.filename = {} THEN off
       ELSE LET name == CHOOSE n \in cfg.filename : TRUE
            IN IF Extension(name) \in C_HL_extensions
               THEN updateSyntaxAll([off EXCEPT !.syntax = 1], 0)
               ELSE off

RECURSIVE GetLines(_, _)
\* the lines getline() returns for the bytes of a file, each with its
\* trailing '\n' when it has one; cur is the line being collected
GetLines(bytes, cur) ==
    IF bytes = <<>> THEN (IF cur = <<>> THEN <<>> ELSE <<cur>>)
    ELSE IF Head(bytes) = 10
    THEN <<Append(cur, 10)>> \o GetLines(Tail(bytes), <<>>)
    ELSE GetLines(Tail(bytes), Append(cur, Head(bytes)))

\* a line kept with its line end
StripLineEndNone(line) == line

RECURSIVE StripLineEnd(_)
\* while( length > 0 && (line[length-1] == '\n' || line[length-1] == '\r') )
StripLineEnd(line) ==
    IF Len(line) > 0 /\ (line[Len(line)] = 10 \/ line[Len(line)] = 13)
    THEN StripLineEnd(SubSeq(line, 1, Len(line) - 1))
    ELSE line

RECURSIVE OpenLines(_, _, _)
\* the getline loop of editorOpen from line i (0-based)
OpenLines(cfg, lines, i) ==
    IF i >= Len(lines) THEN cfg
    ELSE OpenLines(insertRow(cfg, cfg.rows_number, StripLineEnd(lines[i + 1])),
                   lines, i + 1)

\* editorOpen(filename) on a file that opens and holds bytes
editorOpen(cfg, name, bytes) ==
    LET cfg2 == selectSyntaxHighlight([cfg EXCEPT !.filename = {name}])
        cfg3 == OpenLines(cfg2, GetLines(bytes, <<>>), 0)
    IN [cfg3 EXCEPT !.dirty = 0]

\* ------------------------------------------------------------------------
\* Output: the viewport recompute
\* ------------------------------------------------------------------------
\* a read of chars past the terminator: CursorXToRenderXConverter(row, x)
\* reads chars[0 .. x-1], and chars[size] is the last allocated byte the
\* code has written
ReadsOutside(cfg) ==
    /\ cfg.cursorY < cfg.rows_number
    /\ cfg.cursorX > Len(cfg.row[cfg.cursorY + 1].chars) + 1

\* an editorScroll that puts the cursor row on the first line of the window
\* when it was below the window
editorScrollToTop(cfg, rx) ==
    LET ro1 == IF cfg.cursorY < cfg.row_offset THEN cfg.cursorY ELSE cfg.row_offset
        ro2 == IF cfg.cursorY >= ro1 + cfg.screenrows THEN cfg.cursorY ELSE ro1
        co1 == IF rx < cfg.column_offset THEN rx ELSE cfg.column_offset
        co2 == IF rx >= co1 + cfg.screencols THEN rx - cfg.screencols + 1 ELSE co1
    IN [cfg EXCEPT !.renderX = rx, !.row_offset = ro2, !.column_offset = co2]

\* an editorScroll that never lowers row_offset
editorScrollNoUp(cfg, rx) ==
    LET ro2 == IF cfg.cursorY >= cfg.row_offset + cfg.screenrows
               THEN cfg.cursorY - cfg.screenrows + 1 ELSE cfg.row_offset
        co1 == IF rx < cfg.column_offset THEN rx ELSE cfg.column_offset
        co2 == IF rx >= co1 + cfg.screencols THEN rx - cfg.screencols + 1 ELSE co1
    IN [cfg EXCEPT !.renderX = rx, !.row_offset = ro2, !.column_offset = co2]

\* editorScroll() with renderX computed as rx
editorScrollWith(cfg, rx) ==
    LET ro1 == IF cfg.cursorY < cfg.row_offset THEN cfg.cursorY ELSE cfg.row_offset
        ro2 == IF cfg.cursorY >= ro1 + cfg.screenrows
               THEN cfg.cursorY - cfg.screenrows + 1 ELSE ro1
        co1 == IF rx < cfg.column_offset THEN rx ELSE cfg.column_offset
        co2 == IF rx >= co1 + cfg.screencols THEN rx - cfg.screencols + 1 ELSE co1
    IN [cfg EXCEPT !.renderX = rx, !.row_offset = ro2, !.column_offset = co2]

\* editorScroll(): the configurations it can leave
editorScroll(cfg) ==
    IF cfg.cursorY < cfg.rows_number
    THEN { editorScrollWith(cfg, rx) :
             rx \in CursorXToRenderXConverter(cfg.row[cfg.cursorY + 1], cfg.cursorX) }
    ELSE { editorScrollWith(cfg, 0) }

\* an item appended to the frame buffer: its name and, for the rows and the
\* cursor position, the screen coordinates it carries
Item(name, y, x) == [item |-> name, y |-> y, x |-> x]

\* editorDrawRows(&buffer): one item per screen row, a row of the document,
\* the welcome line or a tilde
editorDrawRows(cfg) ==
    [i \in 1..cfg.screenrows |->
        LET file_row == (i - 1) + cfg.row_offset
        IN IF file_row >= cfg.rows_number
           THEN IF cfg.rows_number = 0 /\ i - 1 = cfg.screenrows \div 3
                THEN Item("welcome", i, 0)
                ELSE Item("tilde", i, 0)
           ELSE Item("text", i, 0)]

\* syntaxToColor(hl)
syntaxToColor(hl) ==
    IF hl = HL_STRING THEN 33
    ELSE IF hl = HL_KEYWORD1 THEN 32
    ELSE IF hl = HL_KEYWORD2 THEN 31
    ELSE IF hl = HL_NUMBER THEN 35
    ELSE IF hl = HL_MATCH THEN 96
    ELSE IF hl \in {HL_MLCOMMENT, HL_COMMENT} THEN 90
    ELSE 37

\* the values a byte read past the end of the one-byte object sym may have
StackBytes == {0, 255}

\* the items of the three bytes that BufferAdder(buffer, &sym, 4) copies
\* from behind sym
BehindSym ==
    { <<Item("stack", a, 0), Item("stack", b, 0), Item("stack", c, 0)>> :
        a \in StackBytes, b \in StackBytes, c \in StackBytes }

\* the loop over the cells of a row in editorDrawRows from cell j on: c and
\* hl are the visible slices of render and highlight; the result is the set
\* of item sequences the loop may append
RECURSIVE drawCells(_, _, _, _)
drawCells(c, hl, j, currentColor) ==
    IF j >= Len(c) THEN { <<>> }
    ELSE IF iscntrl(c[j + 1])
    THEN LET sym == IF c[j + 1] <= 26 THEN 64 + c[j + 1] ELSE 63
         IN { <<Item("invert", 0, 0), Item("byte", sym, 0)>> \o behind
                \o <<Item("reset", 0, 0)>>
                \o (IF currentColor # -1 THEN <<Item("color", currentColor, 0)>>
                    ELSE <<>>)
                \o rest
              : behind \in BehindSym, rest \in drawCells(c, hl, j + 1, currentColor) }
    ELSE IF hl[j + 1] = HL_NORMAL
    THEN { (IF currentColor # -1 THEN <<Item("color", 39, 0)>> ELSE <<>>)
             \o <<Item("byte", c[j + 1], 0)>> \o rest
           : rest \in drawCells(c, hl, j + 1, -1) }
    ELSE LET color == syntaxToColor(hl[j + 1])
         IN { (IF color # currentColor THEN <<Item("color", color, 0)>> ELSE <<>>)
                \o <<Item("byte", c[j + 1], 0)>> \o rest
              : rest \in drawCells(c, hl, j + 1, color) }

\* the visible slice of a sequence of cells of row file_row
Visible(cfg, cells) ==
    LET rest == Len(cells) - cfg.column_offset
        len == IF rest < 0 THEN 0
               ELSE IF rest > cfg.screencols THEN cfg.screencols ELSE rest
    IN SubSeq(cells, cfg.column_offset + 1, cfg.column_offset + len)

\* the else branch of editorDrawRows for screen row i (from 1): the item
\* sequences that a row of the document may put into the frame
drawText(cfg, i) ==
    LET row == cfg.row[(i - 1) + cfg.row_offset + 1]
    IN { cells \o <<Item("color", 39, 0)>>
         : cells \in drawCells(Visible(cfg, row.render),
                               Visible(cfg, row.highlight), 0, -1) }

\* reinitializeCursor(&buffer): the position in the escape sequence
reinitializeCursor(cfg) ==
    Item("cursor", (cfg.cursorY - cfg.row_offset) + 1,
                   (cfg.renderX - cfg.column_offset) + 1)

\* a refreshScreen that shows the cursor before it repositions it
refreshScreenShowEarly(cfg) ==
    { [cfg |-> scrolled,
       written |-> << <<Item("hide", 0, 0), Item("home", 0, 0)>>
                        \o editorDrawRows(scrolled)
                        \o <<Item("status", 0, 0), Item("message", 0, 0),
                             Item("show", 0, 0), reinitializeCursor(scrolled)>> >>]
      : scrolled \in editorScroll(cfg) }

\* refreshScreen(): the configurations editorScroll can leave, each with the
\* sequence of the buffers given to write(), one buffer of items
refreshScreen(cfg) ==
    { [cfg |-> scrolled,
       written |-> << <<Item("hide", 0, 0), Item("home", 0, 0)>>
                        \o editorDrawRows(scrolled)
                        \o <<Item("status", 0, 0), Item("message", 0, 0),
                             reinitializeCursor(scrolled), Item("show", 0, 0)>> >>]
      : scrolled \in editorScroll(cfg) }

\* setStatusMessage: the message is kept as a tag
setStatusMessage(cfg, msg) == [cfg EXCEPT !.statusmsg = msg]

\* ------------------------------------------------------------------------
\* Input: moveCursor
\* ------------------------------------------------------------------------
RowSize(cfg, y) == IF y >= cfg.rows_number THEN 0 ELSE Len(cfg.row[y + 1].chars)

moveCursor(cfg, key) ==
    LET hasRow == cfg.cursorY < cfg.rows_number
        size == RowSize(cfg, cfg.cursorY)
        moved ==
          CASE key = ARROW_LEFT ->
                 IF cfg.cursorX # 0 THEN [cfg EXCEPT !.cursorX = @ - 1]
                 ELSE IF cfg.cursorY > 0
                 THEN [cfg EXCEPT !.cursorY = @ - 1,
                                  !.cursorX = Len(cfg.row[cfg.cursorY].chars)]
                 ELSE cfg
            [] key = ARROW_RIGHT ->
                 IF hasRow /\ cfg.cursorX < size THEN [cfg EXCEPT !.cursorX = @ + 1]
                 ELSE IF hasRow /\ cfg.cursorX = size
                 THEN [cfg EXCEPT !.cursorY = @ + 1, !.cursorX = 0]
                 ELSE cfg
            [] key = ARROW_UP ->
                 IF cfg.cursorY # 0 THEN [cfg EXCEPT !.cursorY = @ - 1] ELSE cfg
            [] key = ARROW_DOWN ->
                 IF cfg.cursorY < cfg.rows_number
                 THEN [cfg EXCEPT !.cursorY = @ + 1] ELSE cfg
            [] OTHER -> cfg
        row_length == RowSize(moved, moved.cursorY)
    IN IF moved.cursorX > row_length THEN [moved EXCEPT !.cursorX = row_length]
       ELSE moved

RECURSIVE moveCursorTimes(_, _, _)
\* while( rows-- ) moveCursor(key)
moveCursorTimes(cfg, key, rows) ==
    IF rows = 0 THEN cfg ELSE moveCursorTimes(moveCursor(cfg, key), key, rows - 1)

\* ------------------------------------------------------------------------
\* Find
\* ------------------------------------------------------------------------
\* strstr(s, q) - s: the offset of the first occurrence of q, or -1 for NULL
StrStr(s, q) ==
    LET at == { i \in 0..Len(s) : StartsWith(s, i, q) }
    IN IF at = {} THEN -1 ELSE CHOOSE i \in at : \A j \in at : i <= j

\* StepCurrent with the forward wrap landing on the last row
StepCurrentNoWrap(cfg, current, dir) ==
    IF current + dir = -1 THEN cfg.rows_number - 1
    ELSE IF current + dir = cfg.rows_number THEN cfg.rows_number - 1
    ELSE current + dir

\* current after "current += direction" and the two wrap tests
StepCurrent(cfg, current, dir) ==
    IF current + dir = -1 THEN cfg.rows_number - 1
    ELSE IF current + dir = cfg.rows_number THEN 0
    ELSE current + dir

RECURSIVE SearchOrder(_, _, _, _)
\* the rows the for loop of findCallback tests from iteration i on when no
\* row matches, in order; current is the value before iteration i
SearchOrder(cfg, current, dir, i) ==
    IF i >= cfg.rows_number THEN <<>>
    ELSE <<StepCurrent(cfg, current, dir)>>
            \o SearchOrder(cfg, StepCurrent(cfg, current, dir), dir, i + 1)

RECURSIVE FindLoopFromTop(_, _, _, _, _)
\* a loop that tests the rows from row 0 down whatever the last match
FindLoopFromTop(cfg, query, current, dir, i) ==
    IF i >= cfg.rows_number THEN -1
    ELSE IF StrStr(cfg.row[i + 1].render, query) # -1 THEN i
    ELSE FindLoopFromTop(cfg, query, current, dir, i + 1)

RECURSIVE FindLoop(_, _, _, _, _)
\* the for loop of findCallback: the row it breaks on, or -1
FindLoop(cfg, query, current, dir, i) ==
    IF i >= cfg.rows_number THEN -1
    ELSE LET cur == StepCurrent(cfg, current, dir)
         IN IF StrStr(cfg.row[cur + 1].render, query) # -1 THEN cur
            ELSE FindLoop(cfg, query, cur, dir, i + 1)

\* findCallback without the restore of the saved highlight
findCallbackNoRestore(cfg, st, query, key) ==
    LET restored == cfg
        st1 == [st EXCEPT !.saved_hl = {}]
    IN
    IF key = ENTER \/ key = ESC
    THEN { [cfg |-> restored,
            st |-> [st1 EXCEPT !.last_match = -1, !.direction = 1],
            outside |-> FALSE] }
    ELSE
    LET st2 == IF key = ARROW_LEFT \/ key = ARROW_UP
               THEN [st1 EXCEPT !.direction = -1]
               ELSE IF key = ARROW_RIGHT \/ key = ARROW_DOWN
               THEN [st1 EXCEPT !.direction = 1]
               ELSE [st1 EXCEPT !.last_match = -1, !.direction = 1]
        st3 == IF st2.last_match = -1 THEN [st2 EXCEPT !.direction = 1] ELSE st2
        current == FindLoop(restored, query, st3.last_match, st3.direction, 0)
    IN
    IF current = -1 THEN { [cfg |-> restored, st |-> st3, outside |-> FALSE] }
    ELSE
    LET row == restored.row[current + 1]
        off == StrStr(row.render, query)
        marked == [row EXCEPT !.highlight = MemSet(row.highlight, off, HL_MATCH, Len(query))]
    IN { [cfg |-> [SetRow(restored, current, marked) EXCEPT
                     !.cursorY = current,
                     !.cursorX = cx,
                     !.row_offset = restored.rows_number],
          st |-> [st3 EXCEPT !.last_match = current,
                             !.saved_hl_line = current,
                             !.saved_hl = {row.highlight}],
          outside |-> off > Len(row.chars) + 1]
         : cx \in CursorXToRenderXConverter(row, off) }

\* a findCallback that keeps the last match on a key that is not an arrow
findCallbackKeepsMatch(cfg, st, query, key) ==
    LET restored ==
          IF st.saved_hl # {}
          THEN SetRow(cfg, st.saved_hl_line,
                      [cfg.row[st.saved_hl_line + 1] EXCEPT
                         !.highlight = CHOOSE h \in st.saved_hl : TRUE])
          ELSE cfg
        st1 == [st EXCEPT !.saved_hl = {}]
    IN
    IF key = ENTER \/ key = ESC
    THEN { [cfg |-> restored,
            st |-> [st1 EXCEPT !.last_match = -1, !.direction = 1],
            outside |-> FALSE] }
    ELSE
    LET st2 == IF key = ARROW_LEFT \/ key = ARROW_UP
               THEN [st1 EXCEPT !.direction = -1]
               ELSE IF key = ARROW_RIGHT \/ key = ARROW_DOWN
               THEN [st1 EXCEPT !.direction = 1]
               ELSE [st1 EXCEPT !.direction = 1]
        st3 == IF st2.last_match = -1 THEN [st2 EXCEPT !.direction = 1] ELSE st2
        current == FindLoop(restored, query, st3.last_match, st3.direction, 0)
    IN
    IF current = -1 THEN { [cfg |-> restored, st |-> st3, outside |-> FALSE] }
    ELSE
    LET row == restored.row[current + 1]
        off == StrStr(row.render, query)
        marked == [row EXCEPT !.highlight = MemSet(row.highlight, off, HL_MATCH, Len(query))]
    IN { [cfg |-> [SetRow(restored, current, marked) EXCEPT
                     !.cursorY = current,
                     !.cursorX = cx,
                     !.row_offset = restored.rows_number],
          st |-> [st3 EXCEPT !.last_match = current,
                             !.saved_hl_line = current,
                             !.saved_hl = {row.highlight}],
          outside |-> off > Len(row.chars) + 1]
         : cx \in CursorXToRenderXConverter(row, off) }

\* findCallback(query, key) on the statics st = [last_match, direction,
\* saved_hl_line, saved_hl] (saved_hl is {} for NULL, else {copy}): the set
\* of results [cfg, st, outside], where outside says that the conversion of
\* the match offset read chars outside the row's allocation
findCallback(cfg, st, query, key) ==
    LET restored ==
          IF st.saved_hl # {}
          THEN SetRow(cfg, st.saved_hl_line,
                      [cfg.row[st.saved_hl_line + 1] EXCEPT
                         !.highlight = CHOOSE h \in st.saved_hl : TRUE])
          ELSE cfg
        st1 == [st EXCEPT !.saved_hl = {}]
    IN
    IF key = ENTER \/ key = ESC
    THEN { [cfg |-> restored,
            st |-> [st1 EXCEPT !.last_match = -1, !.direction = 1],
            outside |-> FALSE] }
    ELSE
    LET st2 == IF key = ARROW_LEFT \/ key = ARROW_UP
               THEN [st1 EXCEPT !.direction = -1]
               ELSE IF key = ARROW_RIGHT \/ key = ARROW_DOWN
               THEN [st1 EXCEPT !.direction = 1]
               ELSE [st1 EXCEPT !.last_match = -1, !.direction = 1]
        st3 == IF st2.last_match = -1 THEN [st2 EXCEPT !.direction = 1] ELSE st2
        current == FindLoop(restored, query, st3.last_match, st3.direction, 0)
    IN
    IF current = -1 THEN { [cfg |-> restored, st |-> st3, outside |-> FALSE] }
    ELSE
    LET row == restored.row[current + 1]
        off == StrStr(row.render, query)
        marked == [row EXCEPT !.highlight = MemSet(row.highlight, off, HL_MATCH, Len(query))]
    IN { [cfg |-> [SetRow(restored, current, marked) EXCEPT
                     !.cursorY = current,
                     !.cursorX = cx,
                     !.row_offset = restored.rows_number],
          st |-> [st3 EXCEPT !.last_match = current,
                             !.saved_hl_line = current,
                             !.saved_hl = {row.highlight}],
          outside |-> off > Len(row.chars) + 1]
         : cx \in CursorXToRenderXConverter(row, off) }

\* ------------------------------------------------------------------------
\* The state
\* ------------------------------------------------------------------------
VARIABLES
    configuration,  \* struct editorConfig configuration
    mode,           \* where the process waits for a key: "edit" (main loop),
                    \* "find" / "saveas" (the loop of prompt), "exited",
                    \* "undefined" (a read or write outside an allocation)
    quit_times,     \* static quit_times of editorProcessKeypress
    buffer,         \* buffer of prompt
    statics,        \* the statics of findCallback: last_match, direction,
                    \* saved_hl_line, saved_hl
    find_saved,     \* the locals of find: saved cursor and offsets
    persisted       \* the chars of the rows at the last successful load/save

vars == <<configuration, mode, quit_times, buffer, statics, find_saved,
          persisted>>

rows_number == configuration.rows_number

\* chars of every row, in order
CharsOf(cfg) == [k \in 1..cfg.rows_number |-> cfg.row[k].chars]

\* the locals of find and the buffer of prompt exist only while the prompt
\* runs; outside it the model holds these values for them
NoFindSaved ==
    [saved_cursorX |-> 0, saved_cursorY |-> 0, saved_coloffset |-> 0,
     saved_rowoffset |-> 0]

\* initEditor(), with the window size the terminal reports
initEditor ==
    [ cursorX |-> 0, cursorY |-> 0, rows_number |-> 0, column_offset |-> 0,
      row_offset |-> 0, renderX |-> 0, row |-> <<>>, filename |-> {},
      statusmsg |-> "", dirty |-> 0, syntax |-> 0,
      screenrows |-> ScreenRows, screencols |-> ScreenCols ]

\* main() up to the first refreshScreen(): files is the set of
\* [name, bytes] the editor may be started on, noFile whether it may be
\* started without a file argument
MainInit(files, noFile) ==
    /\ \E start \in (IF noFile THEN {initEditor} ELSE {})
                      \cup { editorOpen(initEditor, f.name, f.bytes) : f \in files } :
          /\ configuration \in editorScroll(setStatusMessage(start, "HELP"))
          /\ persisted = CharsOf(start)
    /\ mode = "edit"
    /\ quit_times = LEAF_QUIT_TIMES
    /\ buffer = <<>>
    /\ statics = [last_match |-> -1, direction |-> 1, saved_hl_line |-> 0,
                  saved_hl |-> {}]
    /\ find_saved = NoFindSaved

\* main() started on a file of names that fopen() cannot open: editorOpen
\* has stored the name and selected the syntax, die("fopen") has ended the
\* process with exit(1)
MainOpenFails(names) ==
    /\ \E name \in names :
          configuration = selectSyntaxHighlight([initEditor EXCEPT !.filename = {name}])
    /\ persisted = <<>>
    /\ mode = "died"
    /\ quit_times = LEAF_QUIT_TIMES
    /\ buffer = <<>>
    /\ statics = [last_match |-> -1, direction |-> 1, saved_hl_line |-> 0,
                  saved_hl |-> {}]
    /\ find_saved = NoFindSaved

\* refreshScreen() at the top of the loop that waits in mode m: the
\* viewport recompute, unless it reads chars outside the row
Land(cfg, m) ==
    IF ReadsOutside(cfg)
    THEN configuration' = cfg /\ mode' = "undefined"
    ELSE configuration' \in editorScroll(cfg) /\ mode' = m

\* ------------------------------------------------------------------------
\* editorProcessKeypress, one action per case of the switch
\* ------------------------------------------------------------------------
\* case '\r'
KeyEnter ==
    /\ mode = "edit"
    /\ IF configuration.cursorX > RowSize(configuration, configuration.cursorY)
       THEN \* insertRow gets the length size - cursorX < 0 as a size_t
            configuration' = configuration /\ mode' = "undefined"
       ELSE Land(insertNewLine(configuration), "edit")
    /\ quit_times' = LEAF_QUIT_TIMES
    /\ UNCHANGED <<buffer, statics, find_saved, persisted>>

\* the quit case without the confirmation counter
KeyQuitNoGuard ==
    /\ mode = "edit"
    /\ mode' = "exited"
    /\ UNCHANGED <<configuration, quit_times, buffer, statics, find_saved,
                   persisted>>

\* case CTRL_KEY('x')
KeyQuit ==
    /\ mode = "edit"
    /\ IF configuration.dirty # 0 /\ quit_times > 0
       THEN /\ Land(setStatusMessage(configuration, "WARNING"), "edit")
            /\ quit_times' = quit_times - 1
       ELSE /\ mode' = "exited"
            /\ UNCHANGED <<configuration, quit_times>>
    /\ UNCHANGED <<buffer, statics, find_saved, persisted>>

\* saveWrite that clears dirty whether or not the write succeeds
saveWriteAnyway(cfg, ok) ==
    IF ok THEN setStatusMessage([cfg EXCEPT !.dirty = 0], "written")
    ELSE setStatusMessage([cfg EXCEPT !.dirty = 0], "Saving failed")

\* saveWrite that says nothing when the write fails
saveWriteSilent(cfg, ok) ==
    IF ok THEN setStatusMessage([cfg EXCEPT !.dirty = 0], "written")
    ELSE cfg

\* saveToFile() from rowsToString on: ok says whether open, ftruncate and
\* write all succeed
saveWrite(cfg, ok) ==
    IF ok THEN setStatusMessage([cfg EXCEPT !.dirty = 0], "written")
    ELSE setStatusMessage(cfg, "Saving failed")

\* case CTRL_KEY('s')
KeySave ==
    /\ mode = "edit"
    /\ IF configuration.filename = {}
       THEN /\ Land(setStatusMessage(configuration, "Save as"), "saveas")
            /\ buffer' = <<>>
            /\ UNCHANGED <<quit_times, persisted>>
       ELSE /\ \E ok \in BOOLEAN :
                 /\ Land(saveWrite(configuration, ok), "edit")
                 /\ persisted' = IF ok THEN CharsOf(configuration) ELSE persisted
            /\ quit_times' = LEAF_QUIT_TIMES
            /\ UNCHANGED buffer
    /\ UNCHANGED <<statics, find_saved>>

\* case PAGE_UP, PAGE_DOWN
pageMove(cfg, key) ==
    LET y == IF key = PAGE_UP THEN cfg.row_offset
             ELSE IF cfg.row_offset + cfg.screenrows - 1 > cfg.rows_number
             THEN cfg.rows_number
             ELSE cfg.row_offset + cfg.screenrows - 1
    IN moveCursorTimes([cfg EXCEPT !.cursorY = y],
                       IF key = PAGE_UP THEN ARROW_UP ELSE ARROW_DOWN,
                       cfg.screenrows)

KeyPage(key) ==
    /\ mode = "edit"
    /\ Land(pageMove(configuration, key), "edit")
    /\ quit_times' = LEAF_QUIT_TIMES
    /\ UNCHANGED <<buffer, statics, find_saved, persisted>>

\* case HOME_KEY
KeyHome ==
    /\ mode = "edit"
    /\ Land([configuration EXCEPT !.cursorX = 0], "edit")
    /\ quit_times' = LEAF_QUIT_TIMES
    /\ UNCHANGED <<buffer, statics, find_saved, persisted>>

\* case END_KEY
KeyEnd ==
    /\ mode = "edit"
    /\ Land(IF configuration.cursorY < configuration.rows_number
            THEN [configuration EXCEPT
                    !.cursorX = RowSize(configuration, configuration.cursorY)]
            ELSE configuration, "edit")
    /\ quit_times' = LEAF_QUIT_TIMES
    /\ UNCHANGED <<buffer, statics, find_saved, persisted>>

\* an arrow case that returns before the counter is set
KeyArrowNoReset(key) ==
    /\ mode = "edit"
    /\ Land(moveCursor(configuration, key), "edit")
    /\ UNCHANGED <<quit_times, buffer, statics, find_saved, persisted>>

\* case ARROW_DOWN, ARROW_LEFT, ARROW_RIGHT, ARROW_UP
KeyArrow(key) ==
    /\ mode = "edit"
    /\ Land(moveCursor(configuration, key), "edit")
    /\ quit_times' = LEAF_QUIT_TIMES
    /\ UNCHANGED <<buffer, statics, find_saved, persisted>>

\* case CTRL_KEY('f'): find() up to the first wait of prompt
KeyFind ==
    /\ mode = "edit"
    /\ find_saved' = [saved_cursorX |-> configuration.cursorX,
                      saved_cursorY |-> configuration.cursorY,
                      saved_coloffset |-> configuration.column_offset,
                      saved_rowoffset |-> configuration.row_offset]
    /\ buffer' = <<>>
    /\ Land(setStatusMessage(configuration, "Search"), "find")
    /\ UNCHANGED <<quit_times, statics, persisted>>

\* the state after "if DEL_KEY moveCursor(ARROW_RIGHT)"
beforeDelete(cfg, key) ==
    IF key = DEL_KEY THEN moveCursor(cfg, ARROW_RIGHT) ELSE cfg

\* case BACKSPACE, CTRL_KEY('h'), DEL_KEY
KeyErase(key) ==
    /\ mode = "edit"
    /\ LET cfg == beforeDelete(configuration, key)
       IN IF cfg.cursorY < cfg.rows_number /\ cfg.cursorX > 0
             /\ RowSize(cfg, cfg.cursorY) = 0
          THEN \* rowDeleteChar makes size -1 and UpdateRow writes to malloc(0)
               configuration' = configuration /\ mode' = "undefined"
          ELSE Land(deleteChar(cfg), "edit")
    /\ quit_times' = LEAF_QUIT_TIMES
    /\ UNCHANGED <<buffer, statics, find_saved, persisted>>

\* case CTRL_KEY('l'), '\x1b'
KeyIgnored(key) ==
    /\ mode = "edit"
    /\ Land(configuration, "edit")
    /\ quit_times' = LEAF_QUIT_TIMES
    /\ UNCHANGED <<buffer, statics, find_saved, persisted>>

\* the keys with a case of their own in the switch
CasedKeys ==
    {ENTER, CTRL_X, CTRL_S, PAGE_DOWN, PAGE_UP, HOME_KEY, END_KEY, ARROW_DOWN,
     ARROW_LEFT, ARROW_RIGHT, ARROW_UP, CTRL_F, BACKSPACE, CTRL_H, DEL_KEY,
     CTRL_L, ESC}

\* default: insertChar(char_read)
KeyChar(c) ==
    /\ mode = "edit"
    /\ c \notin CasedKeys
    /\ Land(insertChar(configuration, c), "edit")
    /\ quit_times' = LEAF_QUIT_TIMES
    /\ UNCHANGED <<buffer, statics, find_saved, persisted>>

\* ------------------------------------------------------------------------
\* prompt, one action per branch of its loop; the callback is findCallback
\* in mode "find" and NULL in mode "saveas"
\* ------------------------------------------------------------------------
\* "if( callback ) callback(buffer, c)" at the end of an iteration, then the
\* refreshScreen() of the next one
PromptCallback(buf, c) ==
    IF mode = "find"
    THEN \E r \in findCallback(configuration, statics, buf, c) :
            /\ statics' = r.st
            /\ IF r.outside
               THEN configuration' = r.cfg /\ mode' = "undefined"
               ELSE Land(r.cfg, "find")
    ELSE /\ Land(configuration, mode)
         /\ UNCHANGED statics

\* an Enter that confirms whatever the buffer holds
PromptEnterAnyInput ==
    /\ mode \in {"find", "saveas"}
    /\ IF mode = "find"
       THEN \E r \in findCallback(setStatusMessage(configuration, ""),
                                  statics, buffer, ENTER) :
               /\ statics' = r.st
               /\ Land(r.cfg, "edit")
               /\ UNCHANGED persisted
       ELSE \E ok \in BOOLEAN :
               LET named == selectSyntaxHighlight(
                              [configuration EXCEPT !.filename = {buffer}])
               IN /\ Land(saveWrite(named, ok), "edit")
                  /\ persisted' = IF ok THEN CharsOf(named) ELSE persisted
                  /\ UNCHANGED statics
    /\ quit_times' = LEAF_QUIT_TIMES
    /\ buffer' = <<>>
    /\ find_saved' = NoFindSaved

\* c == '\r'
PromptEnter ==
    /\ mode \in {"find", "saveas"}
    /\ IF Len(buffer) # 0
       THEN /\ IF mode = "find"
               THEN \E r \in findCallback(setStatusMessage(configuration, ""),
                                          statics, buffer, ENTER) :
                       /\ statics' = r.st
                       /\ Land(r.cfg, "edit")
                       /\ UNCHANGED persisted
               ELSE \E ok \in BOOLEAN :
                       LET named == selectSyntaxHighlight(
                                      [configuration EXCEPT !.filename = {buffer}])
                       IN /\ Land(saveWrite(named, ok), "edit")
                          /\ persisted' = IF ok THEN CharsOf(named) ELSE persisted
                          /\ UNCHANGED statics
            /\ quit_times' = LEAF_QUIT_TIMES
            /\ buffer' = <<>>
            /\ find_saved' = NoFindSaved
       ELSE /\ PromptCallback(buffer, ENTER)
            /\ UNCHANGED <<quit_times, persisted, buffer, find_saved>>

\* c == DEL_KEY || c == CTRL_KEY('h') || c == BACKSPACE
PromptErase(c) ==
    /\ mode \in {"find", "saveas"}
    /\ buffer' = IF Len(buffer) # 0 THEN SubSeq(buffer, 1, Len(buffer) - 1)
                 ELSE buffer
    /\ PromptCallback(buffer', c)
    /\ UNCHANGED <<quit_times, find_saved, persisted>>

\* a cancel after which find() leaves the cursor and the offsets alone
PromptEscapeKeepsCursor ==
    /\ mode \in {"find", "saveas"}
    /\ IF mode = "find"
       THEN \E r \in findCallback(setStatusMessage(configuration, ""),
                                  statics, buffer, ESC) :
               /\ statics' = r.st
               /\ Land(r.cfg, "edit")
       ELSE /\ Land(setStatusMessage(configuration, "Save aborted"), "edit")
            /\ UNCHANGED statics
    /\ quit_times' = LEAF_QUIT_TIMES
    /\ buffer' = <<>>
    /\ find_saved' = NoFindSaved
    /\ UNCHANGED persisted

\* c == '\x1b': prompt returns NULL; find() puts the cursor and the offsets
\* back, saveToFile() reports the abort
PromptEscape ==
    /\ mode \in {"find", "saveas"}
    /\ IF mode = "find"
       THEN \E r \in findCallback(setStatusMessage(configuration, ""),
                                  statics, buffer, ESC) :
               /\ statics' = r.st
               /\ Land([r.cfg EXCEPT !.cursorX = find_saved.saved_cursorX,
                                     !.cursorY = find_saved.saved_cursorY,
                                     !.row_offset = find_saved.saved_rowoffset,
                                     !.column_offset = find_saved.saved_coloffset],
                       "edit")
       ELSE /\ Land(setStatusMessage(configuration, "Save aborted"), "edit")
            /\ UNCHANGED statics
    /\ quit_times' = LEAF_QUIT_TIMES
    /\ buffer' = <<>>
    /\ find_saved' = NoFindSaved
    /\ UNCHANGED persisted

\* !iscntrl(c) && c < 128
PromptChar(c) ==
    /\ mode \in {"find", "saveas"}
    /\ c \notin {ENTER, DEL_KEY, CTRL_H, BACKSPACE, ESC}
    /\ ~iscntrl(c) /\ c < 128
    /\ buffer' = Append(buffer, c)
    /\ PromptCallback(buffer', c)
    /\ UNCHANGED <<quit_times, find_saved, persisted>>

\* any other key: the buffer is left alone
PromptOther(c) ==
    /\ mode \in {"find", "saveas"}
    /\ c \notin {ENTER, DEL_KEY, CTRL_H, BACKSPACE, ESC}
    /\ ~(~iscntrl(c) /\ c < 128)
    /\ PromptCallback(buffer, c)
    /\ UNCHANGED <<buffer, quit_times, find_saved, persisted>>

\* ------------------------------------------------------------------------
\* Specifications
\* ------------------------------------------------------------------------
Arrows == {ARROW_LEFT, ARROW_RIGHT, ARROW_UP, ARROW_DOWN}

\* the name "a.c"
NameC == <<97, 46, 99>>

RECURSIVE FileOf(_)
FileOf(doc) == IF doc = <<>> THEN <<>> ELSE Head(doc) \o <<10>> \o FileOf(Tail(doc))

\* the files named a.c that hold the documents of docs
FilesC(docs) == { [name |-> NameC, bytes |-> FileOf(d)] : d \in docs }

\* the size limits a specification puts on the states it explores
Within(cfg, rows, len, dirty) ==
    /\ cfg.rows_number <= rows
    /\ \A k \in 1..cfg.rows_number : Len(cfg.row[k].chars) <= len
    /\ cfg.dirty <= dirty

\* Spec: editing, saving and quitting a document of digits, started
\* without a file or on a.c.
DigitBytes == {49}

Init == MainInit(FilesC({ <<>>, << <<49>> >> }), TRUE)

\* the sizes the document, the edit counter and the name keep
InBounds ==
    /\ Within(configuration', MaxRows, MaxLen, MaxDirty)
    /\ Len(buffer') <= MaxName

Next ==
    \/ KeyEnter /\ InBounds
    \/ KeyQuit
    \/ KeySave
    \/ \E key \in Arrows : KeyArrow(key)
    \/ \E key \in {BACKSPACE, DEL_KEY} : KeyErase(key) /\ InBounds
    \/ \E c \in DigitBytes : KeyChar(c) /\ InBounds
    \/ PromptEnter
    \/ PromptEscape
    \/ \E c \in DigitBytes : PromptChar(c) /\ InBounds

Spec == Init /\ [][Next]_vars

\* SpecType: typing into and erasing within the rows of a loaded C file;
\* no row is inserted or removed.
CommentBytes == {47, 42, 34}

\* the files: three rows, the first with or without an opening "/" , a
\* quote or a quoted "/*", the last with or without a closing "*/"; and the
\* empty and a one-row file
CommentDocs ==
    { <<r0, r1, r2>> : r0 \in { <<>>, <<47>>, <<34>>, <<34, 47, 42>> },
                       r1 \in { <<>>, <<97>>, <<47, 42>> },
                       r2 \in { <<97>>, <<42, 47, 97>> } }
      \cup { <<>>, << <<47>> >> }

TypeInit == MainInit(FilesC(CommentDocs), FALSE)

\* the edit counter is below its bound
MayEdit == configuration.dirty < TypeEdits

TypeNext ==
    \/ \E key \in Arrows : KeyArrow(key)
    \/ \E c \in CommentBytes :
         MayEdit /\ configuration.cursorY < rows_number /\ KeyChar(c)
    \/ MayEdit /\ configuration.cursorX > 0 /\ KeyErase(BACKSPACE)

SpecType == TypeInit /\ [][TypeNext]_vars

\* SpecEdit: every editing key on a loaded C file.
EditNext ==
    \/ \E key \in Arrows : KeyArrow(key)
    \/ \E c \in CommentBytes : MayEdit /\ KeyChar(c)
    \/ MayEdit /\ KeyEnter
    \/ \E key \in {BACKSPACE, DEL_KEY} : MayEdit /\ KeyErase(key)

SpecEdit == TypeInit /\ [][EditNext]_vars

\* SpecFind: the search prompt on a loaded C file of tabs, digits and
\* spaces; the arrows move the cursor before a search starts.
\* a tab, "1" and twelve spaces: the render column of the "1" is a valid
\* index into chars
TabbedRow == <<TAB, 49>> \o [k \in 1..12 |-> SPACE]

FindRowSet == { <<>>, <<49>>, <<TAB, 49>>, <<49, SPACE, 49>>, TabbedRow }

QueryBytes == {49, SPACE}

\* the files: no row, one row of FindRowSet, two of its short rows, and
\* three-row files
FindDocs ==
    { <<>> } \cup { <<r>> : r \in FindRowSet }
      \cup { <<r0, r1>> : r0 \in FindRowSet \ {TabbedRow},
                          r1 \in FindRowSet \ {TabbedRow} }
      \cup { <<r0, r1, r2>> : r0 \in { <<49>> }, r1 \in { <<>>, <<49, SPACE, 49>> },
                              r2 \in { <<49>>, <<TAB, 49>> } }

FindInit == MainInit(FilesC(FindDocs), FALSE)

FindNext ==
    \/ \E key \in Arrows : KeyArrow(key)
    \/ KeyFind
    \/ PromptEnter
    \/ \E c \in {BACKSPACE, CTRL_H, DEL_KEY} : PromptErase(c)
    \/ PromptEscape
    \/ \E c \in QueryBytes : Len(buffer) < MaxQuery /\ PromptChar(c)
    \/ \E c \in Arrows \cup {CTRL_L} : PromptOther(c)

SpecFind == FindInit /\ [][FindNext]_vars

\* SpecKeys: the keys of the main loop and of the search prompt on rows of
\* tabs and digits.
TabBytes == {TAB, 49}

KeysInit == MainInit(FilesC({ << <<TAB>>, <<49>> >> }), TRUE)

\* the sizes the document, the edit counter and the query keep
KeysInBounds ==
    /\ Within(configuration', MaxRows, MaxLen, MaxDirty)
    /\ Len(buffer') <= MaxQuery

KeysNext ==
    \/ KeyEnter /\ KeysInBounds
    \/ \E key \in {PAGE_UP, PAGE_DOWN} : KeyPage(key)
    \/ KeyHome
    \/ KeyEnd
    \/ \E key \in Arrows : KeyArrow(key)
    \/ KeyFind
    \/ \E key \in {BACKSPACE, CTRL_H, DEL_KEY} : KeyErase(key) /\ KeysInBounds
    \/ \E key \in {CTRL_L, ESC} : KeyIgnored(key)
    \/ \E c \in TabBytes : KeyChar(c) /\ KeysInBounds
    \/ PromptEnter
    \/ \E c \in {BACKSPACE, CTRL_H, DEL_KEY} : PromptErase(c)
    \/ PromptEscape
    \/ \E c \in QueryBytes : PromptChar(c) /\ KeysInBounds
    \/ \E c \in Arrows \cup {CTRL_L} : PromptOther(c)

SpecKeys == KeysInit /\ [][KeysNext]_vars

\* SpecOpen: the keys of Spec, started without a file, on a.c when the file
\* opens and on a.c when it does not.
OpenInit ==
    \/ MainInit(FilesC({ <<>>, << <<49>> >> }), TRUE)
    \/ MainOpenFails({NameC})

SpecOpen == OpenInit /\ [][Next]_vars

\* SpecBytes: every editing key on files of letters, digits, tabs and a
\* carriage return; the typed bytes are a digit, a tab and byte 10 (Ctrl-J).
LF == 10

TypedBytes == {49, TAB, LF}

ByteDocs ==
    { <<>>,
      << <<TAB>> >>,
      << <<49, TAB>>, <<49>> >>,
      << <<TAB, 49>>, <<>> >>,
      << <<49, ENTER, 49>> >>,
      << <<97, 98, 99>>, <<100, 101, 102>> >> }

BytesInit == MainInit(FilesC(ByteDocs), FALSE)

BytesNext ==
    \/ \E key \in Arrows : KeyArrow(key)
    \/ \E c \in TypedBytes : MayEdit /\ KeyChar(c)
    \/ MayEdit /\ KeyEnter
    \/ \E key \in {BACKSPACE, DEL_KEY} : MayEdit /\ KeyErase(key)

SpecBytes == BytesInit /\ [][BytesNext]_vars

\* SpecSyntax: typing into and erasing within the rows of C files that hold
\* keywords, strings with escapes, tabs, line comments and block comments;
\* no row is inserted or removed.
SyntaxBytes == {120, DQUOTE}                          \* "x" and the quote

SyntaxDocs ==
    { << <<105, 110, 116, 32, 120>> >>,               \* int x
      << <<120, 105, 110, 116>> >>,                   \* xint
      << <<53, 105, 102>> >>,                         \* 5if
      << <<34, 97, 34, 105, 102>> >>,                 \* "a"if
      << <<34, 47, 42, 34>> >>,                       \* "/*"
      << <<47, 47, 47, 42>>, <<105, 102>> >>,         \* ///*    | if
      << <<47, 42, 47, 47, 42, 47>> >>,               \* /*//*/
      << <<47, 42>>, <<42, 47, 105, 102>> >>,         \* /*      | */if
      << <<34, 92, 34, 97>> >>,                       \* "\"a
      << <<TAB, 34, 92, 34, 97>> >>,                  \* tab "\"a
      << <<TAB, 34, 92, 34, 47, 42>>, <<97>> >>,      \* tab "\"/* | a
      << <<TAB, 34, 92, 34, 105, 102>> >> }           \* tab "\"if

SyntaxInit == MainInit(FilesC(SyntaxDocs), FALSE)

SyntaxNext ==
    \/ \E key \in Arrows : KeyArrow(key)
    \/ \E c \in SyntaxBytes :
         MayEdit /\ configuration.cursorY < rows_number /\ KeyChar(c)
    \/ MayEdit /\ configuration.cursorX > 0 /\ KeyErase(BACKSPACE)

SpecSyntax == SyntaxInit /\ [][SyntaxNext]_vars

\* SpecSplit: Enter and Backspace, one after the other, on the files of
\* SpecBytes; the edit counter bounds the number of edits.
SplitNext ==
    \/ \E key \in Arrows : KeyArrow(key)
    \/ configuration.dirty < MaxDirty /\ KeyEnter
    \/ configuration.dirty < MaxDirty /\ KeyErase(BACKSPACE)

SpecSplit == BytesInit /\ [][SplitNext]_vars

\* ------------------------------------------------------------------------
\* Properties
\* ------------------------------------------------------------------------
RECURSIVE ScratchFrom(_, _, _, _)
\* the highlight arrays and carry flags of the rows from index k on when the
\* document is highlighted from row 0 downward, carry being the flag of row
\* k - 1
ScratchFrom(cfg, k, carry, out) ==
    IF k >= cfg.rows_number THEN out
    ELSE LET render == RenderOf(cfg.row[k + 1].chars, 0, <<>>)
             res == ScanRow(render, Len(cfg.row[k + 1].chars), HLDB[cfg.syntax],
                            0, TRUE, 0, carry,
                            [j \in 1..Len(render) |-> HL_NORMAL])
         IN ScratchFrom(cfg, k + 1, res.in_comment, Append(out, res))

Scratch(cfg) == ScratchFrom(cfg, 0, FALSE, <<>>)

\* every row carries the highlight and the flag of the from-scratch pass
Consistent(cfg) ==
    LET scratch == Scratch(cfg)
    IN \A k \in 1..cfg.rows_number :
          /\ cfg.row[k].highlight = scratch[k].highlight
          /\ cfg.row[k].in_multiline_open_comment = scratch[k].in_comment

\* a row that follows an unterminated block comment is BlockComment up to
\* and including its first end delimiter, or as a whole when it has none
CommentCarried(cfg) ==
    \A k \in 2..cfg.rows_number :
        cfg.row[k - 1].in_multiline_open_comment =>
            LET render == cfg.row[k].render
                e == StrStr(render, HLDB[cfg.syntax].multiline_comment_end)
                n == IF e = -1 THEN Len(render) ELSE e + 2
            IN /\ \A j \in 1..n : cfg.row[k].highlight[j] = HL_MLCOMMENT
               /\ e = -1 => cfg.row[k].in_multiline_open_comment

\* C1: with a syntax active, after any sequence of typed characters and
\* backspaces within rows of a loaded file, every row's highlight array and
\* carry flag are those of highlighting the whole document from row 0, and
\* the rows after an unterminated block comment are BlockComment up to the
\* first end delimiter.
C1_TypingKeepsHighlight ==
    configuration.syntax # 0 =>
        Consistent(configuration) /\ CommentCarried(configuration)

\* "/" completed to "/*" by a typed "*": the next row and the "*/" of the
\* last row are BlockComment, the "a" after it is Normal
C1_Witness ==
    /\ configuration.syntax # 0
    /\ configuration.dirty = 1
    /\ CharsOf(configuration) = << <<47, 42>>, <<97>>, <<42, 47, 97>> >>
    /\ configuration.row[1].highlight = <<HL_MLCOMMENT, HL_MLCOMMENT>>
    /\ configuration.row[2].highlight = <<HL_MLCOMMENT>>
    /\ configuration.row[3].highlight = <<HL_MLCOMMENT, HL_MLCOMMENT, HL_NORMAL>>

\* C2: after Enter splits a line, every row including the last one has the
\* highlight array and carry flag of a from-scratch highlight.
C2_SplitKeepsHighlight ==
    [][(KeyEnter /\ configuration.syntax # 0 /\ Consistent(configuration))
          => Consistent(configuration')]_vars

\* C3: after Backspace at column 0 of a row r > 0 joins two rows, every
\* remaining row has the highlight array and carry flag of a from-scratch
\* highlight.
C3_JoinKeepsHighlight ==
    [][(/\ KeyErase(BACKSPACE)
        /\ configuration.cursorX = 0 /\ configuration.cursorY > 0
        /\ configuration.cursorY < rows_number
        /\ configuration.syntax # 0 /\ Consistent(configuration))
          => Consistent(configuration')]_vars

\* the cursor is on a row or on the virtual row past the end, and within
\* the chars of its row
CursorInBounds(cfg) ==
    /\ cfg.cursorY >= 0 /\ cfg.cursorY <= cfg.rows_number
    /\ cfg.cursorX >= 0 /\ cfg.cursorX <= RowSize(cfg, cfg.cursorY)

\* C4: after any sequence of keys the cursor row is in [0, rows_number] and
\* the cursor column in [0, size of the cursor row], 0 on the virtual row.
C4_CursorInBounds == mode = "edit" => CursorInBounds(configuration)

\* the index in chars of the byte whose rendering covers render column off
LogicalIndex(chars, off) ==
    CHOOSE k \in 0..Len(chars) :
        /\ Len(RenderOf(SubSeq(chars, 1, k), 0, <<>>)) <= off
        /\ k < Len(chars) => off < Len(RenderOf(SubSeq(chars, 1, k + 1), 0, <<>>))

\* the search prompt shows a match of its buffer
Matched == mode \in {"find", "undefined"} /\ statics.saved_hl # {}

\* C5: when a search step finds the query in a row, the cursor is on that
\* row at the index in chars of the byte where the first occurrence starts,
\* and the conversion has read no chars outside the row.
C5_MatchAtLogicalIndex ==
    Matched =>
        /\ mode = "find"
        /\ configuration.cursorY = statics.last_match
        /\ configuration.cursorX =
             LogicalIndex(configuration.row[statics.last_match + 1].chars,
                          StrStr(configuration.row[statics.last_match + 1].render,
                                 buffer))

\* C6: during a search at most one row's highlight differs from its syntax
\* highlight, and it differs by the Match class on the matched span only;
\* a new search step starts from the restored highlight, and after the
\* search has ended every row has its syntax highlight again.
C6_OneRowOverridden ==
    mode \in {"edit", "find"} =>
        LET scratch == Scratch(configuration)
            line == statics.saved_hl_line + 1
        IN IF statics.saved_hl = {}
           THEN \A k \in 1..rows_number :
                   configuration.row[k].highlight = scratch[k].highlight
           ELSE /\ mode = "find"
                /\ statics.saved_hl = {scratch[line].highlight}
                /\ \A k \in 1..rows_number :
                      configuration.row[k].highlight =
                        IF k = line
                        THEN MemSet(scratch[k].highlight,
                                    StrStr(configuration.row[k].render, buffer),
                                    HL_MATCH, Len(buffer))
                        ELSE scratch[k].highlight

\* the match has moved from the first row, which holds the query too, to
\* the second one
C6_Witness ==
    /\ mode = "find"
    /\ buffer = <<49>>
    /\ statics.saved_hl # {}
    /\ statics.last_match = 1
    /\ StrStr(configuration.row[1].render, buffer) # -1
    /\ \A j \in 1..Len(configuration.row[1].highlight) :
          configuration.row[1].highlight[j] # HL_MATCH
    /\ \E j \in 1..Len(configuration.row[2].highlight) :
          configuration.row[2].highlight[j] = HL_MATCH

\* the for loop that starts at last_match lm in direction dir tests every
\* row exactly once when no row matches
EachRowOnce(cfg, lm, dir) ==
    LET order == SearchOrder(cfg, lm, dir, 0)
    IN /\ Len(order) = cfg.rows_number
       /\ \A r \in 0..(cfg.rows_number - 1) :
             Cardinality({ i \in 1..Len(order) : order[i] = r }) = 1

\* no row's render holds the query
Absent(cfg, query) ==
    \A k \in 1..cfg.rows_number : StrStr(cfg.row[k].render, query) = -1

\* the highlight of row k (1-based) once the saved highlight is put back
RestoredHighlight(k) ==
    IF statics.saved_hl # {} /\ k = statics.saved_hl_line + 1
    THEN CHOOSE h \in statics.saved_hl : TRUE
    ELSE configuration.row[k].highlight

\* C7: a search step whose non-empty query is in no row's render tests
\* every row exactly once, from every last match and direction, and leaves
\* the cursor, both scroll offsets and every highlight cell as they are when
\* the step starts (the saved highlight of the previous match put back); no
\* row is overridden.
C7_AbsentQueryFrame ==
    [][(/\ mode = "find" /\ mode' = "find"
        /\ buffer' # <<>>
        /\ Absent(configuration, buffer'))
          => /\ configuration'.cursorX = configuration.cursorX
             /\ configuration'.cursorY = configuration.cursorY
             /\ configuration'.row_offset = configuration.row_offset
             /\ configuration'.column_offset = configuration.column_offset
             /\ \A k \in 1..rows_number :
                   configuration'.row[k].highlight = RestoredHighlight(k)
             /\ statics'.saved_hl = {}
             /\ EachRowOnce(configuration, -1, 1)
             /\ statics.last_match # -1 =>
                   \A dir \in {1, -1} :
                      EachRowOnce(configuration, statics.last_match, dir)]_vars

\* a query that is in neither row, searched with the cursor on the second
\* row
C7_Witness ==
    /\ mode = "find"
    /\ buffer # <<>>
    /\ rows_number = 2
    /\ Absent(configuration, buffer)
    /\ configuration.cursorY = 1
    /\ statics.saved_hl = {}

\* C8: the search callback invoked with an empty query returns at once:
\* the cursor, the scroll offsets and the highlight arrays are unchanged
\* and no saved-highlight row is recorded.
C8_EmptyQueryReturns ==
    [][(/\ mode = "find" /\ mode' \in {"find", "undefined"}
        /\ buffer' = <<>>)
          => /\ configuration'.cursorX = configuration.cursorX
             /\ configuration'.cursorY = configuration.cursorY
             /\ configuration'.row_offset = configuration.row_offset
             /\ configuration'.column_offset = configuration.column_offset
             /\ \A k \in 1..rows_number :
                   configuration'.row[k].highlight = RestoredHighlight(k)
             /\ statics'.saved_hl = {}]_vars

\* C9: a step that changes the chars of the document increases dirty; dirty
\* decreases only when a successful save sets it to 0; and with dirty = 0
\* the rows are those of the last successful load or save, or the empty
\* document the editor starts with.
C9_DirtyTracksContent ==
    /\ [](configuration.dirty = 0 => CharsOf(configuration) = persisted)
    /\ [][/\ CharsOf(configuration') # CharsOf(configuration)
             => configuration'.dirty > configuration.dirty
          /\ configuration'.dirty < configuration.dirty
             => /\ KeySave \/ PromptEnter
                /\ configuration'.dirty = 0
                /\ configuration'.statusmsg = "written"
                /\ persisted' = CharsOf(configuration)]_vars

\* a second row typed and saved: the document is clean and differs from
\* every file the editor is started on
C9_Witness ==
    /\ configuration.dirty = 0
    /\ configuration.statusmsg = "written"
    /\ CharsOf(configuration) = << <<49>>, <<49>> >>
    /\ persisted = CharsOf(configuration)

\* C10: with dirty # 0 a quit request with confirmations left warns and
\* takes one confirmation, so the process exits by quit only once
\* LEAF_QUIT_TIMES consecutive quit requests have used them up; every other
\* key gives them back; with dirty = 0 the first quit request exits.
C10_QuitGuard ==
    /\ [](/\ quit_times \in 0..LEAF_QUIT_TIMES
          /\ quit_times < LEAF_QUIT_TIMES =>
                /\ configuration.dirty > 0
                /\ mode = "edit" => configuration.statusmsg = "WARNING")
    /\ [][/\ (mode = "edit" /\ mode' = "exited")
             => configuration.dirty = 0 \/ quit_times = 0
          /\ (KeyQuit /\ configuration.dirty > 0 /\ quit_times > 0)
             => /\ mode' = "edit"
                /\ configuration'.statusmsg = "WARNING"
                /\ quit_times' = quit_times - 1
          /\ (KeyQuit /\ configuration.dirty = 0) => mode' = "exited"
          /\ (mode = "edit" /\ ~KeyQuit /\ mode' = "edit")
             => quit_times' = LEAF_QUIT_TIMES]_vars

\* the process has exited with unsaved changes after the confirmations
\* were used up
C10_Witness ==
    /\ mode = "exited"
    /\ configuration.dirty > 0
    /\ quit_times = 0

\* C11: after any sequence of key events, byte 10 included, and file loads,
\* no row's chars contains a newline byte.
C11_NoNewlineInRows ==
    \A k \in 1..rows_number :
        \A j \in 1..Len(configuration.row[k].chars) :
            configuration.row[k].chars[j] # LF

RECURSIVE TabExpand(_)
\* chars with every tab replaced by the spaces that reach the next multiple
\* of the tab stop, at least one, and every other byte copied as one cell
TabExpand(chars) ==
    IF chars = <<>> THEN <<>>
    ELSE LET front == TabExpand(SubSeq(chars, 1, Len(chars) - 1))
             last == chars[Len(chars)]
         IN IF last = TAB
            THEN front \o [k \in 1..(LEAF_TAB_STOP - (Len(front) % LEAF_TAB_STOP)) |-> SPACE]
            ELSE Append(front, last)

\* C12: after every mutation each row's render is its chars with the tabs
\* expanded to the next multiple of the tab stop, and its highlight array
\* has as many entries as render has cells.
C12_RenderIsTabExpansion ==
    \A k \in 1..rows_number :
        /\ configuration.row[k].render = TabExpand(configuration.row[k].chars)
        /\ Len(configuration.row[k].highlight) = Len(configuration.row[k].render)

\* an edited row with a tab that starts at render column 1
C12_Witness ==
    /\ configuration.dirty > 0
    /\ \E k \in 1..rows_number :
          /\ configuration.row[k].chars = <<49, TAB, 49>>
          /\ Len(configuration.row[k].render) = 9
          /\ Len(configuration.row[k].highlight) = 9

\* the number of tabs of a row
TabsIn(chars) == Cardinality({ j \in 1..Len(chars) : chars[j] = TAB })

\* C13 as stated: after every insertChar and deleteChar the length of each
\* row's render is the length of its chars plus (tab stop - 1) per tab.
C13_RenderLengthPerTab ==
    configuration.dirty > 0 =>
    \A k \in 1..rows_number :
        Len(configuration.row[k].render) =
            Len(configuration.row[k].chars)
              + TabsIn(configuration.row[k].chars) * (LEAF_TAB_STOP - 1)

RECURSIVE TabWidths(_, _)
\* the sum over the tabs among the first n bytes of chars of
\* tab stop - 1 - (the render column where the tab starts % tab stop)
TabWidths(chars, n) ==
    IF n = 0 THEN 0
    ELSE TabWidths(chars, n - 1) +
         IF chars[n] = TAB
         THEN LEAF_TAB_STOP - 1
                - (Len(TabExpand(SubSeq(chars, 1, n - 1))) % LEAF_TAB_STOP)
         ELSE 0

\* every tab of chars starts at a multiple of the tab stop
TabsAligned(chars) ==
    \A n \in 1..Len(chars) :
        chars[n] = TAB =>
            Len(TabExpand(SubSeq(chars, 1, n - 1))) % LEAF_TAB_STOP = 0

\* C13 amended: the length of each row's render is the length of its chars
\* plus, per tab, tab stop - 1 less the offset of the tab's column within
\* its tab stop; chars + tabs * (tab stop - 1) is an upper bound, reached
\* exactly when every tab starts at a multiple of the tab stop.
C13_RenderLengthByColumn ==
    \A k \in 1..rows_number :
        LET chars == configuration.row[k].chars
            size == Len(chars)
            rsize == Len(configuration.row[k].render)
            most == size + TabsIn(chars) * (LEAF_TAB_STOP - 1)
        IN /\ rsize = size + TabWidths(chars, size)
           /\ rsize <= most
           /\ rsize = most <=> TabsAligned(chars)

\* an edited row of one byte and a tab: chars of 2 bytes, render of 8 cells
C13_Witness ==
    /\ mode = "edit"
    /\ configuration.dirty > 0
    /\ configuration.cursorY < rows_number
    /\ configuration.cursorX = 2
    /\ configuration.row[configuration.cursorY + 1].chars = <<49, TAB>>
    /\ Len(configuration.row[configuration.cursorY + 1].render) = 8

\* C14: every row's stored index is its position in the row array;
\* insertRow(at) raises the stored index of every row formerly at a position
\* >= at by one and leaves the others, deleteRow(at) lowers that of every
\* row formerly after at by one and leaves the others.
C14_IndexIsPosition ==
    /\ \A k \in 1..rows_number : configuration.row[k].idx = k - 1
    /\ \A at \in 0..rows_number :
          LET after == insertRow(configuration, at, <<>>)
          IN /\ after.rows_number = rows_number + 1
             /\ after.row[at + 1].idx = at
             /\ \A k \in 1..rows_number :
                   LET shift == IF k - 1 >= at THEN 1 ELSE 0
                   IN /\ after.row[k + shift].chars = configuration.row[k].chars
                      /\ after.row[k + shift].idx = configuration.row[k].idx + shift
    /\ \A at \in 0..(rows_number - 1) :
          LET after == deleteRow(configuration, at)
          IN /\ after.rows_number = rows_number - 1
             /\ \A k \in 1..rows_number :
                   k - 1 # at =>
                      LET shift == IF k - 1 > at THEN 1 ELSE 0
                      IN /\ after.row[k - shift].chars = configuration.row[k].chars
                         /\ after.row[k - shift].idx = configuration.row[k].idx - shift

\* rows 0 and 1 of a three-row file joined: the former row 2 is row 1
C14_Witness ==
    /\ mode = "edit"
    /\ configuration.dirty = 2
    /\ rows_number = 2
    /\ configuration.cursorY = 0
    /\ configuration.row[2].idx = 1
    /\ Len(persisted) = 3
    /\ configuration.row[2].chars = persisted[3]

\* the row array with the render of row at rebuilt: the configuration in
\* which UpdateRow(&configuration.row[at]) calls updateSyntax
BeforeSyntax(cfg, at) ==
    SetRow(cfg, at, [cfg.row[at + 1] EXCEPT
                       !.render = TabExpand(cfg.row[at + 1].chars)])

\* the cascade that updateSyntax starts at row at of cfg highlights the rows
\* at, at + 1, ... in this order, each once; every row but the last of them
\* changes its carry flag; the last of them keeps its flag or is the last
\* row of the row array
CascadeStops(cfg, at) ==
    LET visits == updateSyntaxRows(cfg, at)
        after == updateSyntax(cfg, at)
        last == visits[Len(visits)]
        kept(k) == after.row[k + 1].in_multiline_open_comment
                     = cfg.row[k + 1].in_multiline_open_comment
    IN /\ \A j \in 1..Len(visits) : visits[j] = at + j - 1
       /\ last <= Len(cfg.row) - 1
       /\ \A j \in 1..(Len(visits) - 1) : ~kept(visits[j])
       /\ kept(last) \/ last = Len(cfg.row) - 1

\* the cascades of typing one of the bytes cs at the cursor
TypingCascades(cfg, cs) ==
    \A c \in cs :
        LET chars == cfg.row[cfg.cursorY + 1].chars
            typed == SubSeq(chars, 1, cfg.cursorX) \o <<c>>
                       \o SubSeq(chars, cfg.cursorX + 1, Len(chars))
        IN CascadeStops(BeforeSyntax(SetRow(cfg, cfg.cursorY,
                            [cfg.row[cfg.cursorY + 1] EXCEPT !.chars = typed]),
                                     cfg.cursorY),
                        cfg.cursorY)

\* the cascade of the row that Enter inserts at the cursor
SplitCascade(cfg) ==
    LET chars == cfg.row[cfg.cursorY + 1].chars
        at == IF cfg.cursorX = 0 THEN cfg.cursorY ELSE cfg.cursorY + 1
        s == IF cfg.cursorX = 0 THEN <<>>
             ELSE SubSeq(chars, cfg.cursorX + 1, Len(chars))
    IN CascadeStops(BeforeSyntax(insertRowMoved(cfg, at, s), at), at)

\* the cursor is on a row of the document, within its bytes
OnRow(cfg) ==
    /\ cfg.cursorY < cfg.rows_number
    /\ cfg.cursorX <= Len(cfg.row[cfg.cursorY + 1].chars)

\* C15: the highlight cascade started by one edit highlights each row at
\* most once, moves only to the next higher row index, and stops at the
\* first row whose carry flag does not change or at the end of the
\* document; checked for the cascades of a typed byte and of Enter at the
\* cursor.
C15_CascadeStops ==
    (mode = "edit" /\ OnRow(configuration)) =>
        /\ TypingCascades(configuration, CommentBytes)
        /\ SplitCascade(configuration)

\* the cascades of typed bytes alone
CascadeOfTyping ==
    (mode = "edit" /\ OnRow(configuration)) =>
        TypingCascades(configuration, CommentBytes)

\* the chars of row k (0-based) of cfg
Chars(cfg, k) == cfg.row[k + 1].chars

\* C16: deleteChar with the cursor at column 0 of row r > 0 replaces row
\* r - 1 by the concatenation of the old rows r - 1 and r, removes row r,
\* keeps the other rows in their order, and puts the cursor on row r - 1 at
\* the old length of row r - 1.
C16_JoinConcatenates ==
    (/\ mode = "edit"
     /\ configuration.cursorX = 0
     /\ configuration.cursorY > 0
     /\ configuration.cursorY < rows_number) =>
        LET r == configuration.cursorY
            after == deleteChar(configuration)
        IN /\ after.rows_number = rows_number - 1
           /\ Len(after.row) = rows_number - 1
           /\ Chars(after, r - 1) = Chars(configuration, r - 1) \o Chars(configuration, r)
           /\ \A k \in 0..(r - 2) : Chars(after, k) = Chars(configuration, k)
           /\ \A k \in (r + 1)..(rows_number - 1) :
                 Chars(after, k - 1) = Chars(configuration, k)
           /\ after.cursorY = r - 1
           /\ after.cursorX = Len(Chars(configuration, r - 1))

\* the file of rows abc and def after Backspace at row 1, column 0
C16_Witness ==
    /\ mode = "edit"
    /\ persisted = << <<97, 98, 99>>, <<100, 101, 102>> >>
    /\ CharsOf(configuration) = << <<97, 98, 99, 100, 101, 102>> >>
    /\ configuration.cursorY = 0
    /\ configuration.cursorX = 3

\* C17: Enter at column c of an existing row r leaves row r with the old
\* bytes [0, c), makes row r + 1 the old bytes [c, end), moves the later
\* rows down by one unchanged and puts the cursor at column 0 of row r + 1;
\* the two rows concatenated are the old row, for every c in [0, length].
C17_SplitAtCursor ==
    (mode = "edit" /\ OnRow(configuration)) =>
        LET r == configuration.cursorY
            c == configuration.cursorX
            old == Chars(configuration, r)
            after == insertNewLine(configuration)
        IN /\ after.rows_number = rows_number + 1
           /\ Len(after.row) = rows_number + 1
           /\ Chars(after, r) = SubSeq(old, 1, c)
           /\ Chars(after, r + 1) = SubSeq(old, c + 1, Len(old))
           /\ Chars(after, r) \o Chars(after, r + 1) = old
           /\ \A k \in 0..(r - 1) : Chars(after, k) = Chars(configuration, k)
           /\ \A k \in (r + 1)..(rows_number - 1) :
                 Chars(after, k + 1) = Chars(configuration, k)
           /\ after.cursorY = r + 1
           /\ after.cursorX = 0

\* the file of rows abc and def after Enter at row 0, column 2
C17_Witness ==
    /\ mode = "edit"
    /\ persisted = << <<97, 98, 99>>, <<100, 101, 102>> >>
    /\ CharsOf(configuration) = << <<97, 98>>, <<99>>, <<100, 101, 102>> >>
    /\ configuration.cursorY = 1
    /\ configuration.cursorX = 0

\* C18: insertChar at column c of row r inserts one byte at index c of the
\* chars of row r, leaves the chars of every other row, and advances the
\* cursor column by 1; on the virtual end row it first appends one empty row
\* and inserts into that row.
C18_InsertOneByte ==
    (/\ mode = "edit"
     /\ configuration.cursorY <= rows_number
     /\ configuration.cursorY = rows_number => configuration.cursorX = 0
     /\ configuration.cursorY < rows_number => OnRow(configuration)) =>
        \A b \in TypedBytes :
            LET r == configuration.cursorY
                c == configuration.cursorX
                virtual == r = rows_number
                old == IF virtual THEN <<>> ELSE Chars(configuration, r)
                after == insertChar(configuration, b)
            IN /\ after.rows_number = rows_number + (IF virtual THEN 1 ELSE 0)
               /\ Len(after.row) = after.rows_number
               /\ Len(Chars(after, r)) = Len(old) + 1
               /\ Chars(after, r)[c + 1] = b
               /\ SubSeq(Chars(after, r), 1, c) = SubSeq(old, 1, c)
               /\ SubSeq(Chars(after, r), c + 2, Len(old) + 1) = SubSeq(old, c + 1, Len(old))
               /\ \A k \in 0..(rows_number - 1) :
                     k # r => Chars(after, k) = Chars(configuration, k)
               /\ after.cursorY = r
               /\ after.cursorX = c + 1

\* the byte 1 typed at column 1 of the row abc
C18_Witness ==
    /\ mode = "edit"
    /\ persisted = << <<97, 98, 99>>, <<100, 101, 102>> >>
    /\ CharsOf(configuration) = << <<97, 49, 98, 99>>, <<100, 101, 102>> >>
    /\ configuration.cursorY = 0
    /\ configuration.cursorX = 2

RECURSIVE OffsetOf(_, _)
\* the number of bytes before row k (0-based) in a buffer that holds each
\* row's chars and one more byte per row
OffsetOf(cfg, k) ==
    IF k = 0 THEN 0
    ELSE OffsetOf(cfg, k - 1) + Len(Chars(cfg, k - 1)) + 1

\* C19: rowsToString returns, for every document, the empty one included,
\* each row's chars in row order, each followed by exactly one newline, in
\* a buffer whose length is the sum of the row lengths plus the row count.
C19_SerializeRows ==
    LET buf == rowsToString(configuration)
    IN /\ Len(buf) = OffsetOf(configuration, rows_number)
       /\ rows_number = 0 => buf = <<>>
       /\ \A k \in 0..(rows_number - 1) :
             LET off == OffsetOf(configuration, k)
                 size == Len(Chars(configuration, k))
             IN /\ SubSeq(buf, off + 1, off + size) = Chars(configuration, k)
                /\ buf[off + size + 1] = LF

\* an edited document whose second row is empty
C19_Witness ==
    /\ configuration.dirty > 0
    /\ rows_number = 2
    /\ rowsToString(configuration) = <<49, TAB, LF, LF>>

\* no row of cfg holds a carriage return
NoCR(cfg) ==
    \A k \in 0..(cfg.rows_number - 1) :
        \A j \in 1..Len(Chars(cfg, k)) : Chars(cfg, k)[j] # ENTER

\* the document that editorOpen loads from the bytes rowsToString gives
Reloaded(cfg) == editorOpen(initEditor, NameC, rowsToString(cfg))

\* C20: for a document with no carriage return in its rows, the bytes of
\* rowsToString, loaded as lines by editorOpen and passed to rowsToString
\* again, give the same bytes.
C20_SerializeRoundTrip ==
    NoCR(configuration) =>
        rowsToString(Reloaded(configuration)) = rowsToString(configuration)

\* a document without carriage returns whose row holds a typed byte 10: the
\* reloaded document has other rows and the same bytes
C20_Witness ==
    /\ configuration.dirty > 0
    /\ rows_number > 0
    /\ NoCR(configuration)
    /\ CharsOf(Reloaded(configuration)) # CharsOf(configuration)
    /\ rowsToString(Reloaded(configuration)) = rowsToString(configuration)

\* the round trip of any document, carriage returns included
RoundTripOfAll ==
    rowsToString(Reloaded(configuration)) = rowsToString(configuration)

\* the distance of two columns
Dist(a, b) == IF a >= b THEN a - b ELSE b - a

\* C21: for every row and every column c in [0, row length],
\* RederXToCursorXConverter of CursorXToRenderXConverter(row, c) is within
\* one tab stop of c and at most the row length; for a render column at or
\* past the end of render RederXToCursorXConverter returns the row length.
C21_ColumnRoundTrip ==
    \A k \in 1..rows_number :
        LET row == configuration.row[k]
            size == Len(row.chars)
        IN /\ \A c \in 0..size :
                 \A rx \in CursorXToRenderXConverter(row, c) :
                     LET back == RederXToCursorXConverter(row, rx)
                     IN /\ Dist(back, c) <= LEAF_TAB_STOP
                        /\ back <= size
           /\ \A rx \in Len(row.render)..(Len(row.render) + LEAF_TAB_STOP) :
                 RederXToCursorXConverter(row, rx) = size

\* the cursor behind a tab that starts at column 1: the frame's render
\* column is 8 and it converts back to cursor column 2
C21_Witness ==
    /\ mode = "edit"
    /\ configuration.cursorY < rows_number
    /\ configuration.row[configuration.cursorY + 1].chars = <<49, TAB, 49>>
    /\ configuration.cursorX = 2
    /\ configuration.renderX = 8
    /\ RederXToCursorXConverter(configuration.row[configuration.cursorY + 1],
                                configuration.renderX) = 2

\* the cursor row and the cursor's render column are inside the window
InWindow(cfg) ==
    /\ cfg.row_offset <= cfg.cursorY
    /\ cfg.cursorY < cfg.row_offset + cfg.screenrows
    /\ cfg.column_offset <= cfg.renderX
    /\ cfg.renderX < cfg.column_offset + cfg.screencols

\* the cursor items of a frame
CursorItems(frame) ==
    { j \in 1..Len(frame.written[1]) : frame.written[1][j].item = "cursor" }

\* C22: after the viewport recompute that starts a frame, in every
\* reachable state, row_offset <= cursorY < row_offset + screenrows and
\* column_offset <= renderX < column_offset + screencols, and the cursor
\* position the frame emits is inside the text area.
C22_CursorInWindow ==
    /\ mode # "undefined" => InWindow(configuration)
    /\ ~ReadsOutside(configuration) =>
          \A frame \in refreshScreen(configuration) :
              /\ InWindow(frame.cfg)
              /\ \A j \in CursorItems(frame) :
                    /\ frame.written[1][j].y \in 1..frame.cfg.screenrows
                    /\ frame.written[1][j].x \in 1..frame.cfg.screencols
    /\ ReadsOutside(configuration) =>
          \A rx \in 0..(2 * LEAF_TAB_STOP) :
              LET scrolled == editorScrollWith(configuration, rx)
              IN /\ InWindow(scrolled)
                 /\ reinitializeCursor(scrolled).y \in 1..scrolled.screenrows
                 /\ reinitializeCursor(scrolled).x \in 1..scrolled.screencols

\* a search that has put row 1 of two rows at the top of the window
C22_Witness ==
    /\ mode = "find"
    /\ rows_number = 2
    /\ configuration.cursorY = 1
    /\ configuration.row_offset = 1
    /\ statics.last_match = 1

\* the place of an item in the order of a frame
Phase(name) ==
    CASE name = "hide" -> 1
      [] name = "home" -> 2
      [] name \in {"text", "tilde", "welcome"} -> 3
      [] name = "status" -> 4
      [] name = "message" -> 5
      [] name = "cursor" -> 6
      [] name = "show" -> 7

\* the number of items of the buffer out with a name of names
Count(out, names) == Cardinality({ j \in 1..Len(out) : out[j].item \in names })

SaveStep ==
    \/ KeySave /\ configuration.filename # {}
    \/ PromptEnter /\ mode = "saveas" /\ Len(buffer) # 0

\* C24: a save that fails reports the failure in the status message, keeps
\* the dirty counter, the rows and the cursor, and leaves the editor in its
\* key loop.
C24_SaveFailureKeepsState ==
    [][(SaveStep /\ configuration'.statusmsg # "written") =>
          /\ configuration'.statusmsg = "Saving failed"
          /\ configuration'.dirty = configuration.dirty
          /\ CharsOf(configuration') = CharsOf(configuration)
          /\ configuration'.cursorX = configuration.cursorX
          /\ configuration'.cursorY = configuration.cursorY
          /\ persisted' = persisted
          /\ mode' = "edit"]_vars

\* an edited document after a save that failed
C24_Witness ==
    /\ mode = "edit"
    /\ configuration.statusmsg = "Saving failed"
    /\ configuration.dirty > 0
    /\ configuration.filename # {}
    /\ CharsOf(configuration) # persisted

\* C25: a failure to open the file named at start-up is recoverable: the
\* process does not terminate and the session goes on in the key loop.
C25_OpenFailureRecoverable == mode # "died"

\* the arrow keys that would take the cursor of cfg past the document
BlockedArrows(cfg) ==
    { key \in Arrows :
        \/ key = ARROW_UP /\ cfg.cursorY = 0
        \/ key = ARROW_LEFT /\ cfg.cursorY = 0 /\ cfg.cursorX = 0
        \/ key = ARROW_DOWN /\ cfg.cursorY = cfg.rows_number
        \/ key = ARROW_RIGHT /\ cfg.cursorY = cfg.rows_number }

Matching(cfg, q) ==
    { k \in 0..(cfg.rows_number - 1) : StrStr(cfg.row[k + 1].render, q) # -1 }

\* the number of steps from row m to row k of n rows in the direction dir,
\* n for k = m
CyclicSteps(m, k, n, dir) ==
    IF k = m THEN n
    ELSE IF dir = 1 THEN (k - m + n) % n
    ELSE (m - k + n) % n

\* the row of S that is the fewest steps from m in the direction dir
Nearest(S, m, n, dir) ==
    CHOOSE k \in S : \A j \in S : CyclicSteps(m, k, n, dir) <= CyclicSteps(m, j, n, dir)

\* C27: the first search step of a query lands on the lowest matching row;
\* a forward (backward) step from the last match m lands on the nearest
\* matching row strictly after (before) m in cyclic row order, on m itself
\* only when no other row matches.
C27_SearchStepLandsNearest ==
    mode = "find" =>
        /\ \A c \in QueryBytes :
              LET q == Append(buffer, c)
                  M == Matching(configuration, q)
              IN M # {} =>
                    \A r \in findCallback(configuration, statics, q, c) :
                        /\ r.st.last_match = CHOOSE k \in M : \A j \in M : k <= j
                        /\ r.cfg.cursorY = r.st.last_match
        /\ statics.last_match # -1 =>
              \A key \in Arrows :
                  LET M == Matching(configuration, buffer)
                      dir == IF key \in {ARROW_RIGHT, ARROW_DOWN} THEN 1 ELSE -1
                      to == Nearest(M, statics.last_match, rows_number, dir)
                  IN /\ statics.last_match \in M
                     /\ \A r \in findCallback(configuration, statics, buffer, key) :
                           /\ r.st.last_match = to
                           /\ r.cfg.cursorY = to
                     /\ to = statics.last_match <=> M = {statics.last_match}

\* a backward step from row 0 of three rows that has passed the empty row 1
\* and landed on row 2
C27_Witness ==
    /\ mode = "find"
    /\ buffer = <<49>>
    /\ rows_number = 3
    /\ configuration.row[2].chars = <<>>
    /\ statics.direction = -1
    /\ statics.last_match = 2
    /\ configuration.cursorY = 2

\* C28: a key other than the quit key that brings the editor back to its
\* key loop sets the quit counter to LEAF_QUIT_TIMES, so the process exits
\* with unsaved changes only when the quit requests that used the counter up
\* were consecutive.
C28_OtherKeyResetsQuit ==
    [][/\ (~KeyQuit /\ mode' = "edit") => quit_times' = LEAF_QUIT_TIMES
       /\ (KeyQuit /\ quit_times = LEAF_QUIT_TIMES /\ configuration.dirty # 0)
             => /\ mode' = "edit"
                /\ quit_times' = LEAF_QUIT_TIMES - 1]_vars

\* a warning on the status line and the full counter: a key has followed
\* the quit request
C28_Witness ==
    /\ mode = "edit"
    /\ configuration.dirty > 0
    /\ configuration.statusmsg = "WARNING"
    /\ quit_times = LEAF_QUIT_TIMES

\* the offset new that the recompute gives for the offset old, the position
\* pos and a window of width cells: old when pos is in the window of old,
\* else the offset nearest to old whose window holds pos
MovedLeast(old, new, pos, width) ==
    /\ (old <= pos /\ pos < old + width) => new = old
    /\ new <= pos /\ pos < new + width
    /\ \A v \in 0..pos :
          pos < v + width => Dist(new, old) <= Dist(v, old)

\* the configurations in which the next frame's recompute starts: after an
\* arrow key in the key loop, after a query byte or an arrow key in the
\* search prompt
BeforeScroll ==
    IF mode = "find"
    THEN { r.cfg : r \in UNION { findCallback(configuration, statics, buffer, key) :
                                   key \in Arrows } }
           \cup { r.cfg : r \in UNION { findCallback(configuration, statics,
                                                     Append(buffer, c), c) :
                                          c \in QueryBytes } }
    ELSE { moveCursor(configuration, key) : key \in Arrows }

\* the configurations the recompute can leave from before: those of
\* editorScroll, or, when the conversion of the cursor column reads outside
\* the row, those of any render column up to two tab stops
Recomputed(before) ==
    IF ReadsOutside(before)
    THEN { editorScrollWith(before, rx) : rx \in 0..(2 * LEAF_TAB_STOP) }
    ELSE editorScroll(before)

\* C29: editorScroll leaves row_offset (column_offset) as it is when the
\* cursor row (render column) is inside the window and otherwise moves it by
\* the least amount that brings the cursor inside; a second editorScroll
\* changes nothing.
C29_ScrollMovesLeast ==
    \A before \in BeforeScroll :
        \A after \in Recomputed(before) :
            /\ MovedLeast(before.row_offset, after.row_offset,
                          before.cursorY, before.screenrows)
            /\ MovedLeast(before.column_offset, after.column_offset,
                          after.renderX, before.screencols)
            /\ editorScrollWith(after, after.renderX) = after
            /\ ~ReadsOutside(before) => editorScroll(after) = {after}

\* the cursor on the last line of a window that has moved down
C29_Witness ==
    /\ mode = "edit"
    /\ configuration.row_offset > 0
    /\ configuration.cursorY = configuration.row_offset + configuration.screenrows - 1
    /\ configuration.column_offset > 0
    /\ configuration.renderX = configuration.column_offset + configuration.screencols - 1

\* the statics record no match and the forward direction
Forgotten(st) == st.last_match = -1 /\ st.direction = 1

\* the search of the result r has started from row 0 in the forward
\* direction for the query q: it has found the lowest matching row, or none
FromTop(r, cfg, q) ==
    /\ r.st.direction = 1
    /\ r.st.last_match =
          IF Matching(cfg, q) = {} THEN -1
          ELSE CHOOSE k \in Matching(cfg, q) : \A j \in Matching(cfg, q) : k <= j

\* C30: the direction is forward after Enter and Escape and after any key
\* that is not an arrow key, and such a key forgets the last match, so that
\* the search starts from row 0; a backward arrow with no match recorded
\* searches forward; every search interaction starts with no last match and
\* the forward direction.
C30_DirectionResets ==
    /\ mode = "edit" => Forgotten(statics)
    /\ statics.last_match = -1 => statics.direction = 1
    /\ mode = "find" =>
          /\ \A key \in {ENTER, ESC} :
                \A r \in findCallback(configuration, statics, buffer, key) :
                    Forgotten(r.st)
          /\ \A key \in {BACKSPACE, CTRL_H, DEL_KEY, CTRL_L} :
                \A r \in findCallback(configuration, statics, buffer, key) :
                    FromTop(r, configuration, buffer)
          /\ \A c \in QueryBytes :
                \A r \in findCallback(configuration, statics, Append(buffer, c), c) :
                    FromTop(r, configuration, Append(buffer, c))
          /\ statics.last_match = -1 =>
                \A key \in {ARROW_LEFT, ARROW_UP} :
                    \A r \in findCallback(configuration, statics, buffer, key) :
                        FromTop(r, configuration, buffer)

\* the key loop after a search that was confirmed on row 2 of three rows,
\* the match row at the top of the window
C30_Witness ==
    /\ mode = "edit"
    /\ Forgotten(statics)
    /\ configuration.statusmsg = ""
    /\ rows_number = 3
    /\ configuration.cursorY = 2
    /\ configuration.row_offset = 2

\* the lexical states of a row by the priority rules of the highlighter:
\* st is 0 in code, -1 in a block comment and the quote byte in a string;
\* every cell gets "code", "line" (line comment), "block", "blockend" (last
\* cell of an end delimiter), "string", "close" (the closing quote),
\* "escape" (a backslash in a string that another rendered cell follows) or
\* "escaped" (the cell such a backslash takes with it)
RECURSIVE LexRow(_, _, _, _)
LexRow(render, i, st, out) ==
    LET n == Len(render)
        c == render[i + 1]
        at(p) == StartsWith(render, i, p)
    IN
    IF i >= n THEN [cells |-> out, open |-> st = -1]
    ELSE IF st = 0 /\ at(<<47, 47>>)
    THEN [cells |-> out \o [k \in 1..(n - i) |-> "line"], open |-> FALSE]
    ELSE IF st = -1 /\ at(<<42, 47>>)
    THEN LexRow(render, i + 2, 0, out \o <<"block", "blockend">>)
    ELSE IF st = -1
    THEN LexRow(render, i + 1, -1, Append(out, "block"))
    ELSE IF st = 0 /\ at(<<47, 42>>)
    THEN LexRow(render, i + 2, -1, out \o <<"block", "block">>)
    ELSE IF st > 0 /\ c = BACKSLASH /\ i + 1 < n
    THEN LexRow(render, i + 2, st, out \o <<"escape", "escaped">>)
    ELSE IF st > 0 /\ c = st
    THEN LexRow(render, i + 1, 0, Append(out, "close"))
    ELSE IF st > 0
    THEN LexRow(render, i + 1, st, Append(out, "string"))
    ELSE IF c \in {DQUOTE, SQUOTE}
    THEN LexRow(render, i + 1, c, Append(out, "string"))
    ELSE LexRow(render, i + 1, 0, Append(out, "code"))

\* the rows of the document lexed from row 0 downward, each row starting in
\* the block comment the row before it left open
RECURSIVE LexFrom(_, _, _, _)
LexFrom(cfg, k, carry, out) ==
    IF k >= cfg.rows_number THEN out
    ELSE LET res == LexRow(cfg.row[k + 1].render, 0, IF carry THEN -1 ELSE 0, <<>>)
         IN LexFrom(cfg, k + 1, res.open, Append(out, res))

Lexed(cfg) == LexFrom(cfg, 0, FALSE, <<>>)

\* C31: the continues-block-comment flag of every row is true exactly when
\* the row ends inside an unterminated block comment by the priority rules:
\* a start delimiter inside a string or after a line-comment prefix does not
\* open a comment, a line-comment prefix inside a block comment does not end
\* the scan, an end delimiter inside a block comment closes it.
C31_FlagIsOpenComment ==
    LET lexed == Lexed(configuration)
    IN \A k \in 1..rows_number :
          configuration.row[k].in_multiline_open_comment = lexed[k].open

\* every row lexed from the flag that the row above it carries
LexedAsCarried(cfg) ==
    [k \in 1..cfg.rows_number |->
        LexRow(cfg.row[k].render, 0,
               IF k > 1 /\ cfg.row[k - 1].in_multiline_open_comment THEN -1 ELSE 0,
               <<>>)]

\* the rows with an escaping backslash whose next cell is not below size: a
\* tab has made render longer than chars
EscapeMissed(cfg) ==
    { k \in 1..cfg.rows_number :
        \E j \in 1..Len(cfg.row[k].render) :
            /\ LexedAsCarried(cfg)[k].cells[j] = "escape"
            /\ j >= Len(cfg.row[k].chars) }

\* where no row up to row k has such an escape, the flag of row k is the
\* one of the priority rules
FlagWhereEscapesHold ==
    LET lexed == Lexed(configuration)
    IN \A k \in 1..rows_number :
          (\A m \in EscapeMissed(configuration) : m > k) =>
              configuration.row[k].in_multiline_open_comment = lexed[k].open

StringsOn(cfg) ==
    cfg.syntax # 0 /\ (HLDB[cfg.syntax].flags \div HL_HIGHLIGHT_STRINGS) % 2 = 1

\* C32: with string highlighting on, a backslash inside a string that
\* another rendered cell follows is String together with that cell, and the
\* scan goes on inside the string after the two: the cell after an escaped
\* quote is String too; for every row, rows with tabs included.
C32_EscapeTakesNextCell ==
    StringsOn(configuration) =>
        \A k \in 1..rows_number :
            LET row == configuration.row[k]
                cells == LexedAsCarried(configuration)[k].cells
            IN \A j \in 1..Len(row.render) :
                  cells[j] = "escape" =>
                      /\ row.highlight[j] = HL_STRING
                      /\ row.highlight[j + 1] = HL_STRING
                      /\ j + 2 <= Len(row.render) => row.highlight[j + 2] = HL_STRING

\* the same on the rows without a tab, where render is chars
EscapeWithoutTabs ==
    StringsOn(configuration) =>
        \A k \in 1..rows_number :
            LET row == configuration.row[k]
                cells == LexedAsCarried(configuration)[k].cells
            IN row.render = row.chars =>
                  \A j \in 1..Len(row.render) :
                      cells[j] = "escape" =>
                          /\ row.highlight[j] = HL_STRING
                          /\ row.highlight[j + 1] = HL_STRING
                          /\ j + 2 <= Len(row.render) => row.highlight[j + 2] = HL_STRING

\* a row without a tab in which an escaped quote keeps the string open
EscapeWithoutTabsSeen ==
    /\ rows_number >= 1
    /\ configuration.row[1].chars = <<34, 92, 34, 97>>
    /\ configuration.row[1].highlight = <<5, 5, 5, 5>>

KeywordClasses == {HL_KEYWORD1, HL_KEYWORD2}

\* the maximal runs <<s, e>> of keyword-class cells of a highlight array
KeywordRuns(hl) ==
    { se \in (1..Len(hl)) \X (1..Len(hl)) :
        /\ se[1] <= se[2]
        /\ \A j \in se[1]..se[2] : hl[j] \in KeywordClasses
        /\ se[1] > 1 => hl[se[1] - 1] \notin KeywordClasses
        /\ se[2] < Len(hl) => hl[se[2] + 1] \notin KeywordClasses }

\* the cell before cell s leaves the scan in separator context: s starts
\* the row, or that cell is a separator character in code, a closing quote
\* or the end of a block comment
SeparatorContext(render, cells, s) ==
    \/ s = 1
    \/ cells[s - 1] \in {"close", "blockend"}
    \/ cells[s - 1] = "code" /\ is_separator(render[s - 1])

\* the run <<s, e>> of row is one keyword of the syntax, painted in the
\* class of its marker, after separator context and before a separator or
\* the end of the row
PaintedAsKeyword(row, cells, keywords, se) ==
    \E n \in 1..Len(keywords) :
        LET kw == keywords[n]
            marked == kw[Len(kw)] = BAR
            text == IF marked THEN SubSeq(kw, 1, Len(kw) - 1) ELSE kw
        IN /\ SubSeq(row.render, se[1], se[2]) = text
           /\ \A j \in se[1]..se[2] :
                 row.highlight[j] = IF marked THEN HL_KEYWORD1 ELSE HL_KEYWORD2
           /\ SeparatorContext(row.render, cells, se[1])
           /\ is_separator(CharAt(row.render, se[2]))

\* C33: every painted keyword is a whole keyword in the class of its
\* marker, the cell before it is in separator context (row start, a
\* separator character, a closing quote, the end of a block comment) and
\* the cell after it is a separator or the end of the row; so a keyword
\* next to an identifier character, a number or another keyword is not
\* painted.
C33_KeywordContext ==
    configuration.syntax # 0 =>
        \A k \in 1..rows_number :
            \A se \in KeywordRuns(configuration.row[k].highlight) :
                PaintedAsKeyword(configuration.row[k],
                                 LexedAsCarried(configuration)[k].cells,
                                 HLDB[configuration.syntax].keywords, se)

\* the same on the rows whose escapes are all taken
KeywordsWhereEscapesHold ==
    configuration.syntax # 0 =>
        \A k \in (1..rows_number) \ EscapeMissed(configuration) :
            \A se \in KeywordRuns(configuration.row[k].highlight) :
                PaintedAsKeyword(configuration.row[k],
                                 LexedAsCarried(configuration)[k].cells,
                                 HLDB[configuration.syntax].keywords, se)

\* keywords painted after a closing quote and after the end of a block
\* comment, and left alone after an identifier character and a number
KeywordsSeen ==
    \/ /\ configuration.row[1].chars = <<34, 97, 34, 105, 102>>
       /\ configuration.row[1].highlight = <<5, 5, 5, 4, 4>>
    \/ /\ rows_number = 2
       /\ configuration.row[2].chars = <<42, 47, 105, 102>>
       /\ configuration.row[2].highlight = <<2, 2, 4, 4>>
    \/ /\ configuration.row[1].chars = <<105, 110, 116, 32, 120>>
       /\ configuration.row[1].highlight = <<3, 3, 3, 0, 0>>

\* the placeholder of a non-printable byte
GlyphOf(b) == IF b <= 26 THEN 64 + b ELSE 63

\* the colour in force before item p of out: the value of the last colour
\* marker before p, or -1 when there is none or it is the default colour
ActiveColor(out, p) ==
    LET before == { q \in 1..(p - 1) : out[q].item = "color" }
    IN IF before = {} THEN -1
       ELSE LET q == CHOOSE m \in before : \A n \in before : n <= m
            IN IF out[q].y = 39 THEN -1 ELSE out[q].y

\* the screen rows of a frame that show a row of the document
TextRows(frame) ==
    { frame.written[1][p].y : p \in { q \in 1..Len(frame.written[1]) :
                                        frame.written[1][q].item = "text" } }

\* the n-th invert marker of out stands for the n-th non-printable byte of
\* the slice: one glyph, the style reset, and the colour in force again
OnePlaceholder(out, slice) ==
    LET inverts == { p \in 1..Len(out) : out[p].item = "invert" }
        controls == { j \in 1..Len(slice) : iscntrl(slice[j]) }
    IN /\ Cardinality(inverts) = Cardinality(controls)
       /\ \A p \in inverts :
             LET n == Cardinality({ q \in inverts : q <= p })
                 j == CHOOSE m \in controls :
                         Cardinality({ k \in controls : k <= m }) = n
                 active == ActiveColor(out, p)
             IN /\ p + 2 <= Len(out)
                /\ out[p + 1] = Item("byte", GlyphOf(slice[j]), 0)
                /\ out[p + 2] = Item("reset", 0, 0)
                /\ active # -1 =>
                      p + 3 <= Len(out) /\ out[p + 3] = Item("color", active, 0)
       /\ Cardinality({ p \in 1..Len(out) : out[p].item = "byte" }) = Len(slice)
       /\ \A p \in 1..Len(out) : out[p].item \in {"invert", "byte", "reset", "color"}

\* C34: in a frame, every non-printable byte of a visible row is drawn as
\* exactly one placeholder glyph ('@' + byte up to 26, otherwise '?')
\* between the invert marker and the style reset, followed by the colour
\* marker that was in force if there was one, and by nothing else.
C34_OnePlaceholderGlyph ==
    mode = "edit" /\ ~ReadsOutside(configuration) =>
        \A frame \in refreshScreen(configuration) :
            \A i \in TextRows(frame) :
                \A out \in drawText(frame.cfg, i) :
                    OnePlaceholder(out,
                        Visible(frame.cfg,
                                frame.cfg.row[(i - 1) + frame.cfg.row_offset + 1].render))

\* C35: with the cursor on an existing row at any column, Enter followed at
\* once by Backspace gives back the chars of every row, the row count and
\* the cursor position; the edit counter has grown.
C35_EnterThenBackspace ==
    (mode = "edit" /\ OnRow(configuration)) =>
        \A split \in editorScroll(insertNewLine(configuration)) :
            \A after \in editorScroll(deleteChar(beforeDelete(split, BACKSPACE))) :
                /\ after.rows_number = rows_number
                /\ Len(after.row) = rows_number
                /\ CharsOf(after) = CharsOf(configuration)
                /\ \A k \in 1..rows_number :
                      after.row[k].render = configuration.row[k].render
                /\ after.cursorY = configuration.cursorY
                /\ after.cursorX = configuration.cursorX
                /\ after.dirty > configuration.dirty

\* the file of rows abc and def after Enter at row 0, column 2 and the
\* Backspace that joins the two halves again
C35_Witness ==
    /\ mode = "edit"
    /\ persisted = << <<97, 98, 99>>, <<100, 101, 102>> >>
    /\ CharsOf(configuration) = persisted
    /\ configuration.dirty = 3
    /\ configuration.cursorY = 0
    /\ configuration.cursorX = 2

\* the Delete key on cfg: moveCursor(ARROW_RIGHT), then deleteChar()
DeleteKey(cfg) == deleteChar(beforeDelete(cfg, DEL_KEY))

\* what a forward delete at (r, c) does to the rows: inside row r the byte
\* at c goes, at the end of a row that is not the last the next row is
\* joined onto it
ForwardDeleted(cfg, after) ==
    LET r == cfg.cursorY
        c == cfg.cursorX
        old == Chars(cfg, r)
    IN IF c < Len(old)
       THEN /\ after.rows_number = cfg.rows_number
            /\ Chars(after, r) = SubSeq(old, 1, c) \o SubSeq(old, c + 2, Len(old))
            /\ \A k \in (0..(cfg.rows_number - 1)) \ {r} : Chars(after, k) = Chars(cfg, k)
       ELSE /\ after.rows_number = cfg.rows_number - 1
            /\ Chars(after, r) = old \o Chars(cfg, r + 1)
            /\ \A k \in 0..(r - 1) : Chars(after, k) = Chars(cfg, k)
            /\ \A k \in (r + 2)..(cfg.rows_number - 1) : Chars(after, k - 1) = Chars(cfg, k)

\* the cursor is at the end of the last row
AtLastEnd(cfg) ==
    /\ cfg.rows_number > 0
    /\ cfg.cursorY = cfg.rows_number - 1
    /\ cfg.cursorX = Len(Chars(cfg, cfg.cursorY))

\* C36: the Delete key never moves the cursor; inside a row it removes the
\* byte at the cursor, at the end of a row that is not the last it joins
\* the next row onto the cursor row, and at the end of the last row or on
\* the virtual end row it leaves rows, edit counter and cursor as they are.
C36_ForwardDelete ==
    mode = "edit" =>
        LET after == DeleteKey(configuration)
        IN /\ after.cursorY = configuration.cursorY
           /\ after.cursorX = configuration.cursorX
           /\ IF configuration.cursorY = rows_number \/ AtLastEnd(configuration)
              THEN /\ after.row = configuration.row
                   /\ after.rows_number = rows_number
                   /\ after.dirty = configuration.dirty
              ELSE ForwardDeleted(configuration, after)

\* the same without the cursor of the end of the last row: there the rows
\* and the edit counter stay and the cursor goes to the virtual end row
DeleteButAtLastEnd ==
    mode = "edit" =>
        LET after == DeleteKey(configuration)
        IN IF AtLastEnd(configuration)
           THEN /\ after.row = configuration.row
                /\ after.rows_number = rows_number
                /\ after.dirty = configuration.dirty
                /\ after.cursorY = rows_number
                /\ after.cursorX = 0
           ELSE /\ after.cursorY = configuration.cursorY
                /\ after.cursorX = configuration.cursorX
                /\ IF configuration.cursorY = rows_number
                   THEN /\ after.row = configuration.row
                        /\ after.rows_number = rows_number
                        /\ after.dirty = configuration.dirty
                   ELSE ForwardDeleted(configuration, after)

\* the cursor and the offsets of cfg, as find() saves them
ViewOf(cfg) ==
    [saved_cursorX |-> cfg.cursorX, saved_cursorY |-> cfg.cursorY,
     saved_coloffset |-> cfg.column_offset, saved_rowoffset |-> cfg.row_offset]

\* the rows are those of the loaded file with the highlight of the syntax
\* pass, and no edit is counted
RowsAsLoaded(cfg) ==
    /\ CharsOf(cfg) = persisted
    /\ cfg.dirty = 0
    /\ cfg.syntax # 0 => Consistent(cfg)

\* C37: a search begins with the cursor and the offsets saved; while it
\* runs the saved values, the bytes of the rows and the edit counter stay;
\* Escape puts cursor row, cursor column, row offset and column offset back
\* to the values of the beginning, whatever matches were visited; Enter on
\* a non-empty query leaves the cursor where the last match put it; after
\* both the rows are as before the search and no edit is counted.
C37_SearchFrame ==
    [][ /\ (mode = "edit" /\ mode' = "find") =>
              /\ find_saved' = ViewOf(configuration)
              /\ ViewOf(configuration') = ViewOf(configuration)
        /\ (mode = "find" /\ mode' = "find") =>
              /\ find_saved' = find_saved
              /\ CharsOf(configuration') = CharsOf(configuration)
              /\ configuration'.dirty = configuration.dirty
        /\ (mode = "find" /\ PromptEscape) =>
              /\ mode' = "edit"
              /\ ViewOf(configuration') = find_saved
              /\ RowsAsLoaded(configuration')
        /\ (mode = "find" /\ PromptEnter /\ mode' = "edit") =>
              /\ Len(buffer) # 0
              /\ configuration'.cursorX = configuration.cursorX
              /\ configuration'.cursorY = configuration.cursorY
              /\ statics.last_match # -1 =>
                    configuration'.cursorY = statics.last_match
              /\ RowsAsLoaded(configuration')
      ]_vars

\* a search that has visited a match on another row than the one it began
\* on and has moved the row offset
C37_Witness ==
    /\ mode = "find"
    /\ statics.last_match # -1
    /\ configuration.cursorY = statics.last_match
    /\ configuration.cursorY # find_saved.saved_cursorY
    /\ configuration.row_offset # find_saved.saved_rowoffset

\* C38: the prompt confirms only a non-empty input: Enter on an empty input
\* leaves the prompt collecting, Enter on a non-empty one ends it with that
\* input, Escape cancels; so the filename is never the empty string, and a
\* cancelled Save-as leaves the filename unset and the edit counter as it
\* was and writes nothing.
C38_PromptConfirmsNonEmpty ==
    /\ [](\A name \in configuration.filename : Len(name) > 0)
    /\ [][ /\ (PromptEnter /\ Len(buffer) = 0) =>
                 /\ mode' = mode
                 /\ buffer' = buffer
                 /\ configuration'.filename = configuration.filename
                 /\ configuration'.dirty = configuration.dirty
                 /\ persisted' = persisted
           /\ (PromptEnter /\ mode = "saveas" /\ Len(buffer) # 0) =>
                 /\ mode' = "edit"
                 /\ configuration'.filename = {buffer}
           /\ (PromptEscape /\ mode = "saveas") =>
                 /\ mode' = "edit"
                 /\ configuration'.filename = {}
                 /\ configuration'.dirty = configuration.dirty
                 /\ configuration'.statusmsg = "Save aborted"
                 /\ persisted' = persisted
         ]_vars

\* an edited document without a name after a cancelled Save-as
C38_Witness ==
    /\ mode = "edit"
    /\ configuration.statusmsg = "Save aborted"
    /\ configuration.filename = {}
    /\ configuration.dirty > 0
    /\ persisted = <<>>
====
